---- MODULE Spec2Model ----
(***************************************************************************)
(* Concent: the Bankster deposit-claim ledger                              *)
(* (concent_api/core/payments/bankster.py) as a state machine.             *)
(*                                                                         *)
(* The store is the `control` database: Client, DepositAccount and         *)
(* DepositClaim rows.  Bankster runs under a pool of request workers; each *)
(* worker executes one operation at a time, and an operation is cut into   *)
(* steps at the points where another worker can interleave: between the    *)
(* oracle reads and the database transaction, between the statements of a  *)
(* transaction that holds no row lock, and while a transaction waits for   *)
(* or holds the DepositAccount row lock (SELECT ... FOR UPDATE).           *)
(* Rows written inside a transaction become visible at its commit.         *)
(***************************************************************************)
EXTENDS Integers, Sequences, FiniteSets, TLC

\* ------------------------------------------------------------------ bounds
\* Largest subtask_cost / acceptance price a caller passes.
MaxCost == 2
\* DepositClaim primary keys handed out by the database sequence.
MaxClaims == 2
\* Transactions the oracle submits.
MaxTx == 2
\* Width of a normalised transaction hash (digits).
HashLen == 2
\* Times the on-chain deposits move during a run.
MaxDepositChanges == 1
\* Frames the front-end connections send during a run.
MaxMessages == 3
\* Frames among them that are invalid.
MaxInvalidFrames == 1
\* Bytes in the payload of a frame that goes through the codec.
MaxPayloadLen == 2
\* Ticks of the clock while a subtask is under forced acceptance.
MaxTime == 3
\* Items a queue of the relay, or the stream from the Signing Service, holds.
MaxQueue == 2
\* middleman.constants.CONNECTION_COUNTER_LIMIT, the wrap point of the
\* Signing Service request ids, scaled down so that a run wraps.
CONNECTION_COUNTER_LIMIT == 2

\* ------------------------------------------------------- program constants
\* settings.ADDITIONAL_VERIFICATION_COST
ADDITIONAL_VERIFICATION_COST == 10

\* ConcentUseCase
FORCED_ACCEPTANCE == "FORCED_ACCEPTANCE"
ADDITIONAL_VERIFICATION == "ADDITIONAL_VERIFICATION"
FORCED_PAYMENT == "FORCED_PAYMENT"

\* ------------------------------------------------------------ the universe
Workers == {"w1", "w2"}

\* The workers that run settle_overdue_acceptances (it takes the row lock for
\* the whole of its work, so two of them never overlap inside it).
SettleWorkers == {"w1"}

\* Ethereum addresses: the requestor's, the provider's, and the address
\* derived from settings.CONCENT_ETHEREUM_PUBLIC_KEY.
RequestorAddress == "0xRequestor"
ProviderAddress == "0xProvider"
ConcentAddress == "0xConcent"
ClientAddresses == {RequestorAddress, ProviderAddress}

\* The addresses whose deposit moves during a run; the provider's deposit is
\* chosen at the start.
MovingAddresses == {RequestorAddress}

RequestorPublicKey == "requestor_public_key"
ProviderPublicKey == "provider_public_key"

SubtaskIds == {"subtask_1"}
NoSubtask == "none"

\* Values a caller passes as subtask_cost: the smallest and the largest.
SubtaskCosts == {1, MaxCost}

\* Values the on-chain deposit of each client takes.
DepositValues(address) ==
    IF address = RequestorAddress
    THEN {0, 1, MaxCost}
    ELSE {ADDITIONAL_VERIFICATION_COST, ADDITIONAL_VERIFICATION_COST + 1}

NoHash == << >>

VARIABLES
    clients,      \* Client rows: the set of public keys
    accounts,     \* DepositAccount rows: records [client, ethereum_address]
    claims,       \* DepositClaim rows (committed)
    subtasks,     \* Subtask rows: records [subtask_id, requestor, provider]
    deposit,      \* the oracle: on-chain deposit of each client address
    lock,         \* DepositAccount row locks: address -> set of holders
    callbacks,    \* confirmation callbacks registered with the oracle
    next_pk,      \* the DepositClaim primary-key sequence
    next_tx,      \* number of the next transaction the oracle submits
    deposit_changes, \* how often the on-chain deposits have moved
    w,            \* each worker's position and locals
    last          \* what the step just taken returned or raised, if it ended a call

\* The MiddleMan relay.
VARIABLES
    producer,          \* each front-end connection's request_producer: "new", "running", "ended"
    response_queue_pool, \* connection ids that have a response queue in the pool
    request_queue,     \* the shared queue of RequestQueueItem
    response_queue,    \* each connection's queue of ResponseQueueItem
    message_tracker,   \* the OrderedDict, as the sequence of its entries in insertion order
    signing_service_request_id, \* request_consumer's counter
    signing_service_pending,    \* frames the Signing Service has received and not answered
    signing_service_reader,     \* frames on the stream from the Signing Service
    response_producer, \* response_producer's position and the frame it is handling
    next_message,      \* number of the next frame a request_producer reads
    invalid_frames,    \* number of invalid frames the request_producers have read
    answer_no,         \* number of answers the Signing Service has given
    last_sent,         \* per connection: number of its last request sent upstream
    last_written       \* per connection: number of the last answer written to it

bankster_vars == <<clients, accounts, claims, subtasks, deposit, lock, callbacks, next_pk,
                   next_tx, deposit_changes, w>>

relay_vars == <<producer, response_queue_pool, request_queue, response_queue, message_tracker,
                signing_service_request_id, signing_service_pending, signing_service_reader,
                response_producer, next_message, invalid_frames, answer_no, last_sent,
                last_written>>

\* The frame codec of middleman_protocol: one frame on its way from
\* send_over_stream_async to handle_frame_receive_async.
VARIABLE codec

\* The Subtask table under store_subtask.
VARIABLE subtask_store

\* One subtask under the handlers of forced acceptance (core).
VARIABLE arbitration

\* Everything but Bankster, but the relay, but the codec, but the Subtask
\* table, but the subtask under forced acceptance.
outside_bankster == <<relay_vars, codec, subtask_store, arbitration>>
outside_relay == <<bankster_vars, codec, subtask_store, arbitration>>
outside_codec == <<bankster_vars, relay_vars, subtask_store, arbitration, last>>
outside_store == <<bankster_vars, relay_vars, codec, arbitration, last>>
outside_arbitration == <<bankster_vars, relay_vars, codec, subtask_store, last>>

vars == <<bankster_vars, relay_vars, codec, subtask_store, arbitration, last>>

\* ----------------------------------------------------------------- helpers
RECURSIVE SumAmounts(_)
\* Coalesce(Sum('amount'), 0) over a queryset of DepositClaim rows.
SumAmounts(rows) ==
    IF rows = {} THEN 0
    ELSE LET r == CHOOSE x \in rows : TRUE
         IN r.amount + SumAmounts(rows \ {r})

\* DepositClaim.objects.filter(payer_deposit_account=account)
ClaimsOf(address) == {c \in claims : c.payer_deposit_account = address}

Min(a, b) == IF a < b THEN a ELSE b

\* get_or_create_safely(Client, ...) and get_or_create_safely(DepositAccount, ...)
GetOrCreateClient(set, key) == set \cup {key}
GetOrCreateAccount(set, key, address) == set \cup {[client |-> key, ethereum_address |-> address]}

\* A worker that runs no operation.
IdleWorker ==
    [pc |-> "idle",
     subtask_id |-> NoSubtask,
     concent_use_case |-> "none",
     subtask_cost |-> 0,
     requestor_deposit |-> 0,
     provider_deposit |-> 0,
     sum_requestor |-> 0,
     sum_provider |-> 0,
     claim_against_requestor |-> {},
     claim_against_provider |-> {},
     deposit_claim |-> {},
     available_funds |-> 0,
     available_funds_without_claims |-> 0,
     amount |-> 0,
     acceptances |-> << >>,
     amount_pending |-> 0,
     requestor_payable_amount |-> 0]

\* No call ended in the step just taken.
NoEvent == [op |-> "none"]

\* The pool hands a request to its first free worker.
FirstFree(wk) == w[wk].pc = "idle" /\ (wk = "w2" => w["w1"].pc # "idle")

\* A variant that takes no row lock; C15 tells it from the definition below.
SelectForUpdate_NoLock(locks, address, wk) == locks

\* DepositAccount.objects.select_for_update().get(pk=...): the row lock is the
\* caller's until its transaction ends.
SelectForUpdate(locks, address, wk) == [locks EXCEPT ![address] = {wk}]

\* ---------------------------------------------------------- claim_deposit
\* is_claim_against_provider
IsClaimAgainstProvider(concent_use_case) ==
    concent_use_case = ADDITIONAL_VERIFICATION /\ ADDITIONAL_VERIFICATION_COST > 0

\* A variant that admits a claim when the deposit equals the existing claims;
\* C4 tells it from the definition below.
RequestorDepositTooSmall_Strict(requestor_deposit, sum_of_existing_claims) ==
    requestor_deposit < sum_of_existing_claims

\* "If the existing claims against requestor's deposit are greater or equal
\* to his current deposit, we can't add a new claim."
RequestorDepositTooSmall(requestor_deposit, sum_of_existing_claims) ==
    requestor_deposit <= sum_of_existing_claims

\* A variant that admits the provider when the deposit equals the existing
\* claims plus the verification cost; C6 tells it from the definition below.
ProviderDepositTooSmall_Strict(provider_deposit, sum_of_existing_claims) ==
    provider_deposit < sum_of_existing_claims + ADDITIONAL_VERIFICATION_COST

\* "If the total of existing claims and the current claim is greater or
\* equal to the current deposit, we can't add a new claim."
ProviderDepositTooSmall(provider_deposit, sum_of_existing_claims) ==
    provider_deposit <= sum_of_existing_claims + ADDITIONAL_VERIFICATION_COST

\* A variant that locks one unit whatever the subtask costs; C5 tells it from
\* the definition below.
ClaimAgainstRequestor_UnitAmount(pk, subtask_id, concent_use_case, subtask_cost) ==
    [id |-> pk,
     subtask_id |-> subtask_id,
     payee_ethereum_address |-> ProviderAddress,
     amount |-> 1,
     concent_use_case |-> concent_use_case,
     payer_deposit_account |-> RequestorAddress,
     tx_hash |-> NoHash,
     closure_time |-> {}]

\* The DepositClaim built as the deposit lock for the requestor.
ClaimAgainstRequestor(pk, subtask_id, concent_use_case, subtask_cost) ==
    [id |-> pk,
     subtask_id |-> subtask_id,
     payee_ethereum_address |-> ProviderAddress,
     amount |-> subtask_cost,
     concent_use_case |-> concent_use_case,
     payer_deposit_account |-> RequestorAddress,
     tx_hash |-> NoHash,
     closure_time |-> {}]

\* Rows a call of claim_deposit with this use case may insert.
RowsNeeded(concent_use_case) == IF IsClaimAgainstProvider(concent_use_case) THEN 2 ELSE 1

\* Primary keys the calls under way may still draw from the sequence.
RowsReserved ==
    LET Reserved(wk) ==
            CASE w[wk].pc = "cd_sum_requestor" -> RowsNeeded(w[wk].concent_use_case)
              [] w[wk].pc = "cd_sum_provider" -> 1
              [] w[wk].pc \in {"so_lock", "so_pay"} -> 1
              [] OTHER -> 0
    IN Reserved("w1") + Reserved("w2")

\* Transactions the calls under way may still ask the oracle to submit.
TxReserved ==
    LET Reserved(wk) ==
            IF w[wk].pc \in {"fp_lock", "fp_pay", "so_lock", "so_pay"} THEN 1 ELSE 0
    IN Reserved("w1") + Reserved("w2")

\* What a call of claim_deposit that ends in this step reports.
ClaimDepositEvent(wk, sum_requestor, sum_provider, ret, exc) ==
    [op |-> "claim_deposit",
     subtask_id |-> w[wk].subtask_id,
     concent_use_case |-> w[wk].concent_use_case,
     subtask_cost |-> w[wk].subtask_cost,
     requestor_deposit |-> w[wk].requestor_deposit,
     provider_deposit |-> w[wk].provider_deposit,
     sum_requestor |-> sum_requestor,
     sum_provider |-> sum_provider,
     claims_before |-> claims,
     ret |-> ret,
     exc |-> exc]

\* The first transaction (Client and DepositAccount rows) and the oracle
\* reads of the deposits, which precede the second transaction.
ClaimDepositBegin(wk, subtask_id, concent_use_case, subtask_cost) ==
    /\ FirstFree(wk)
    /\ next_pk + RowsReserved + RowsNeeded(concent_use_case) <= MaxClaims + 1
    /\ LET against_provider == IsClaimAgainstProvider(concent_use_case)
           clients1 == GetOrCreateClient(clients, RequestorPublicKey)
           accounts1 == GetOrCreateAccount(accounts, RequestorPublicKey, RequestorAddress)
       IN /\ clients' = IF against_provider
                           THEN GetOrCreateClient(clients1, ProviderPublicKey)
                           ELSE clients1
          /\ accounts' = IF against_provider
                            THEN GetOrCreateAccount(accounts1, ProviderPublicKey, ProviderAddress)
                            ELSE accounts1
          /\ w' = [w EXCEPT ![wk] =
                     [IdleWorker EXCEPT
                        !.pc = "cd_sum_requestor",
                        !.subtask_id = subtask_id,
                        !.concent_use_case = concent_use_case,
                        !.subtask_cost = subtask_cost,
                        !.requestor_deposit = deposit[RequestorAddress],
                        !.provider_deposit = IF against_provider
                                               THEN deposit[ProviderAddress]
                                               ELSE 0]]
    /\ last' = NoEvent
    /\ UNCHANGED <<claims, subtasks, deposit, lock, callbacks, next_pk, next_tx, deposit_changes>>

\* The second transaction opens: the aggregate over the requestor's claims,
\* the admission test, and the INSERT of the requestor's claim (not yet
\* committed).  No DepositAccount row is locked.
ClaimDepositSumRequestor(wk) ==
    /\ w[wk].pc = "cd_sum_requestor"
    /\ LET sum == SumAmounts(ClaimsOf(RequestorAddress))
       IN IF RequestorDepositTooSmall(w[wk].requestor_deposit, sum)
          THEN /\ w' = [w EXCEPT ![wk] = IdleWorker]
               /\ last' = ClaimDepositEvent(wk, sum, 0, <<{}, {}>>, "none")
               /\ UNCHANGED next_pk
          ELSE /\ w' = [w EXCEPT
                          ![wk].pc = IF IsClaimAgainstProvider(w[wk].concent_use_case)
                                       THEN "cd_sum_provider" ELSE "cd_commit",
                          ![wk].sum_requestor = sum,
                          ![wk].claim_against_requestor =
                              {ClaimAgainstRequestor(next_pk, w[wk].subtask_id,
                                                     w[wk].concent_use_case,
                                                     w[wk].subtask_cost)}]
               /\ last' = NoEvent
               /\ next_pk' = next_pk + 1
    /\ UNCHANGED <<clients, accounts, claims, subtasks, deposit, lock, callbacks, next_tx, deposit_changes>>

\* The aggregate over the provider's claims and the provider's admission
\* test.  On failure the requestor's claim is deleted and
\* TooSmallProviderDeposit leaves the atomic block, which rolls back.
ClaimDepositSumProvider(wk) ==
    LET
        \* The DepositClaim built as the deposit lock for the provider.
        ClaimAgainstProvider(pk, subtask_id, concent_use_case) ==
            [id |-> pk,
             subtask_id |-> subtask_id,
             payee_ethereum_address |-> ConcentAddress,
             amount |-> ADDITIONAL_VERIFICATION_COST,
             concent_use_case |-> concent_use_case,
             payer_deposit_account |-> ProviderAddress,
             tx_hash |-> NoHash,
             closure_time |-> {}]
    IN
    /\ w[wk].pc = "cd_sum_provider"
    /\ LET sum == SumAmounts(ClaimsOf(ProviderAddress))
       IN IF ProviderDepositTooSmall(w[wk].provider_deposit, sum)
          THEN /\ w' = [w EXCEPT ![wk] = IdleWorker]
               /\ last' = ClaimDepositEvent(wk, w[wk].sum_requestor, sum, << >>,
                                            "TooSmallProviderDeposit")
               /\ UNCHANGED next_pk
          ELSE /\ w' = [w EXCEPT
                          ![wk].pc = "cd_commit",
                          ![wk].sum_provider = sum,
                          ![wk].claim_against_provider =
                              {ClaimAgainstProvider(next_pk, w[wk].subtask_id,
                                                    w[wk].concent_use_case)}]
               /\ last' = NoEvent
               /\ next_pk' = next_pk + 1
    /\ UNCHANGED <<clients, accounts, claims, subtasks, deposit, lock, callbacks, next_tx, deposit_changes>>

\* The second transaction commits its rows and the call returns them.
ClaimDepositCommit(wk) ==
    /\ w[wk].pc = "cd_commit"
    /\ claims' = claims \cup w[wk].claim_against_requestor \cup w[wk].claim_against_provider
    /\ w' = [w EXCEPT ![wk] = IdleWorker]
    /\ last' = ClaimDepositEvent(wk, w[wk].sum_requestor, w[wk].sum_provider,
                                 <<w[wk].claim_against_requestor,
                                   w[wk].claim_against_provider>>, "none")
    /\ UNCHANGED <<clients, accounts, subtasks, deposit, lock, callbacks, next_pk, next_tx, deposit_changes>>

\* -------------------------------------------------------- finalize_payment
RECURSIVE adjust_transaction_hash(_)
\* Left-pads a transaction hash to the fixed length.
adjust_transaction_hash(tx_hash) ==
    IF Len(tx_hash) >= HashLen THEN tx_hash
    ELSE adjust_transaction_hash(<<0>> \o tx_hash)

\* A variant that keeps the claim when exactly nothing is available; C8 tells
\* it from the definition below.
NothingAvailable_Strict(available_funds_without_claims) ==
    available_funds_without_claims < 0

\* "If the result is negative or zero, Bankster removes the DepositClaim."
NothingAvailable(available_funds_without_claims) ==
    available_funds_without_claims <= 0

\* A variant that never lowers the amount; C7 tells it from the definition
\* below.
ClampedAmount_Unclamped(amount, available_funds_without_claims) == amount

\* A variant that sets the amount to what is available, also when that is
\* more; C36 tells it from the definition below.
ClampedAmount_Available(amount, available_funds_without_claims) ==
    available_funds_without_claims

\* "Otherwise if the result is lower than DepositAccount.amount, Bankster
\* sets this field to the amount that's actually available."
ClampedAmount(amount, available_funds_without_claims) ==
    IF available_funds_without_claims < amount
    THEN available_funds_without_claims
    ELSE amount

\* A variant that deletes every claim of the payer; C12 tells it from the
\* definition below.
DeleteClaim_AllOfPayer(rows, deposit_claim) ==
    {c \in rows : c.payer_deposit_account # deposit_claim.payer_deposit_account}

\* Model.delete(): DELETE ... WHERE id = pk
DeleteClaim(rows, deposit_claim) == {c \in rows : c.id # deposit_claim.id}

\* A variant that forces a subtask payment for every claim; C9 tells it from
\* the definition below.
PaymentCall_AlwaysForce(deposit_claim) ==
    [function |-> "force_subtask_payment",
     requestor_eth_address |-> deposit_claim.payer_deposit_account,
     provider_eth_address |-> deposit_claim.payee_ethereum_address,
     value |-> deposit_claim.amount,
     subtask_id |-> deposit_claim.subtask_id]

\* The oracle call finalize_payment selects for a claim, or the exception
\* that ends the call when it selects none.
PaymentCall(deposit_claim) ==
    LET \* Subtask.objects.filter(subtask_id=...).first(), as a set of at most one row
        SubtaskOf(subtask_id) == {s \in subtasks : s.subtask_id = subtask_id}
        payer == deposit_claim.payer_deposit_account
        force_subtask_payment ==
            [function |-> "force_subtask_payment",
             requestor_eth_address |-> payer,
             provider_eth_address |-> deposit_claim.payee_ethereum_address,
             value |-> deposit_claim.amount,
             subtask_id |-> deposit_claim.subtask_id]
        cover_additional_verification_cost ==
            [function |-> "cover_additional_verification_cost",
             provider_eth_address |-> payer,
             value |-> deposit_claim.amount,
             subtask_id |-> deposit_claim.subtask_id]
    IN CASE deposit_claim.concent_use_case = FORCED_ACCEPTANCE -> force_subtask_payment
         [] deposit_claim.concent_use_case = ADDITIONAL_VERIFICATION ->
              IF SubtaskOf(deposit_claim.subtask_id) = {}
              THEN [function |-> "UnboundLocalError"]
              ELSE LET task_to_compute == CHOOSE s \in SubtaskOf(deposit_claim.subtask_id) : TRUE
                   IN IF task_to_compute.requestor = payer THEN force_subtask_payment
                      ELSE IF task_to_compute.provider = payer
                           THEN cover_additional_verification_cost
                           ELSE [function |-> "AssertionError"]
         [] OTHER -> [function |-> "AssertionError"]

\* What the confirmation callback's closure reads of the claim object.
CallbackClaim(deposit_claim) ==
    [id |-> deposit_claim.id,
     payer_deposit_account |-> deposit_claim.payer_deposit_account,
     tx_hash |-> deposit_claim.tx_hash]

\* What a call of finalize_payment that ends in this step reports.
FinalizePaymentEvent(deposit_claim, available, calls, ret, exc) ==
    [op |-> "finalize_payment",
     deposit_claim |-> deposit_claim,
     available_funds_without_claims |-> available,
     claims_before |-> claims,
     callbacks_before |-> callbacks,
     calls |-> calls,
     ret |-> ret,
     exc |-> exc]

\* The caller passes a claim it holds with tx_hash None; Bankster reads the
\* payer's deposit from the oracle before it opens its transaction.
FinalizePaymentBegin(wk, deposit_claim) ==
    /\ FirstFree(wk)
    /\ deposit_claim \in claims
    /\ deposit_claim.tx_hash = NoHash
    /\ next_tx + TxReserved <= MaxTx
    /\ w' = [w EXCEPT ![wk] =
               [IdleWorker EXCEPT
                  !.pc = "fp_lock",
                  !.deposit_claim = {deposit_claim},
                  !.available_funds = deposit[deposit_claim.payer_deposit_account]]]
    /\ last' = NoEvent
    /\ UNCHANGED <<clients, accounts, claims, subtasks, deposit, lock, callbacks, next_pk, next_tx, deposit_changes>>

\* The transaction takes the payer's DepositAccount row lock, sums the
\* payer's other claims, and deletes the claim or clamps its amount.
FinalizePaymentLock(wk) ==
    LET
        \* The payer's other claims: filter(payer_deposit_account=...).exclude(pk=...)
        OtherClaims(deposit_claim) ==
            {c \in ClaimsOf(deposit_claim.payer_deposit_account) : c.id # deposit_claim.id}
        \* available_funds_without_claims
        AvailableFundsWithoutClaims(available_funds, sum_of_existing_claims) ==
            available_funds - sum_of_existing_claims
    IN
    /\ w[wk].pc = "fp_lock"
    /\ LET deposit_claim == CHOOSE c \in w[wk].deposit_claim : TRUE
           payer == deposit_claim.payer_deposit_account
           available == AvailableFundsWithoutClaims(w[wk].available_funds,
                                                    SumAmounts(OtherClaims(deposit_claim)))
       IN /\ lock[payer] = {}
          /\ IF payer \notin {a.ethereum_address : a \in accounts}
             THEN \* DepositAccount.DoesNotExist ends the call
                  /\ w' = [w EXCEPT ![wk] = IdleWorker]
                  /\ last' = FinalizePaymentEvent(deposit_claim, available, << >>, NoHash,
                                                  "DoesNotExist")
                  /\ UNCHANGED <<claims, lock>>
             ELSE IF NothingAvailable(available)
             THEN /\ claims' = DeleteClaim(claims, deposit_claim)
                  /\ w' = [w EXCEPT ![wk] = IdleWorker]
                  /\ last' = FinalizePaymentEvent(deposit_claim, available, << >>, NoHash, "none")
                  /\ UNCHANGED lock
             ELSE /\ w' = [w EXCEPT
                             ![wk].pc = "fp_pay",
                             ![wk].available_funds = 0,
                             ![wk].available_funds_without_claims = available,
                             ![wk].amount = ClampedAmount(deposit_claim.amount, available)]
                  /\ lock' = SelectForUpdate(lock, payer, wk)
                  /\ last' = NoEvent
                  /\ UNCHANGED claims
    /\ UNCHANGED <<clients, accounts, subtasks, deposit, callbacks, next_pk, next_tx, deposit_changes>>

\* Still inside the transaction and holding the row lock: the oracle payment
\* call, the write of tx_hash, the registration of the confirmation
\* callback, and the commit.  An exception rolls the transaction back.
FinalizePaymentPay(wk) ==
    LET
        \* The hash of the n-th transaction as the oracle returns it.
        TxHash(n) == <<n>>
        \* Model.save() of an object that has a primary key: UPDATE the row, INSERT
        \* it when no row has that key.
        SaveClaim(rows, deposit_claim) == DeleteClaim(rows, deposit_claim) \cup {deposit_claim}
        \* Whether finalize_payment selected an oracle call.
        IsOracleCall(call) ==
            call.function \in {"force_subtask_payment", "cover_additional_verification_cost"}
    IN
    /\ w[wk].pc = "fp_pay"
    /\ LET passed == CHOOSE c \in w[wk].deposit_claim : TRUE
           deposit_claim == [passed EXCEPT !.amount = w[wk].amount]
           payer == deposit_claim.payer_deposit_account
           call == PaymentCall(deposit_claim)
           saved == [deposit_claim EXCEPT
                       !.tx_hash = adjust_transaction_hash(TxHash(next_tx))]
       IN /\ lock' = [lock EXCEPT ![payer] = {}]
          /\ IF IsOracleCall(call)
             THEN /\ claims' = SaveClaim(claims, saved)
                  /\ callbacks' = callbacks \cup {[tx_hash |-> saved.tx_hash,
                                                   deposit_claim |-> CallbackClaim(saved)]}
                  /\ next_tx' = next_tx + 1
                  /\ last' = FinalizePaymentEvent(passed, w[wk].available_funds_without_claims,
                                                  <<call>>, saved.tx_hash, "none")
             ELSE /\ last' = FinalizePaymentEvent(passed, w[wk].available_funds_without_claims,
                                                  << >>, NoHash, call.function)
                  /\ UNCHANGED <<claims, callbacks, next_tx>>
    /\ w' = [w EXCEPT ![wk] = IdleWorker]
    /\ UNCHANGED <<clients, accounts, subtasks, deposit, next_pk, deposit_changes>>

\* ------------------------------------------------------------ discard_claim
\* A variant that removes only the claims without a tx_hash; C10 tells it
\* from the definition below.
ClaimRemoved_Inverted(deposit_claim) == deposit_claim.tx_hash = NoHash

\* "if deposit_claim.tx_hash is None: claim_removed = False"
ClaimRemoved(deposit_claim) == deposit_claim.tx_hash # NoHash

\* A variant that deletes the claim whether or not it has a tx_hash; C11
\* tells it from the definition below.
ClaimsAfterDiscard_Always(rows, deposit_claim) == DeleteClaim(rows, deposit_claim)

\* The store after discard_claim(deposit_claim).
ClaimsAfterDiscard(rows, deposit_claim) ==
    IF ClaimRemoved(deposit_claim) THEN DeleteClaim(rows, deposit_claim) ELSE rows

\* "except DepositAccount.DoesNotExist: assert False": the exception that
\* ends discard_claim, if any.
DiscardClaimRaises(deposit_claim) ==
    IF deposit_claim.payer_deposit_account \in {a.ethereum_address : a \in accounts}
    THEN "none"
    ELSE "AssertionError"

\* What a call of discard_claim reports.
DiscardClaimEvent(deposit_claim, caller) ==
    [op |-> "discard_claim",
     caller |-> caller,
     deposit_claim |-> deposit_claim,
     claims_before |-> claims,
     exc |-> DiscardClaimRaises(deposit_claim),
     ret |-> DiscardClaimRaises(deposit_claim) = "none" /\ ClaimRemoved(deposit_claim)]

\* discard_claim called on a claim the caller holds.
DiscardClaim(wk, deposit_claim) ==
    /\ FirstFree(wk)
    /\ deposit_claim \in claims
    /\ lock[deposit_claim.payer_deposit_account] = {}
    /\ claims' = IF DiscardClaimRaises(deposit_claim) = "none"
                 THEN ClaimsAfterDiscard(claims, deposit_claim)
                 ELSE claims
    /\ last' = DiscardClaimEvent(CallbackClaim(deposit_claim), "worker")
    /\ UNCHANGED <<clients, accounts, subtasks, deposit, lock, callbacks, next_pk, next_tx, w, deposit_changes>>

\* The oracle sees the transaction confirmed and runs the callback
\* finalize_payment registered: discard_claim on the claim object it holds.
ConfirmTransaction(callback) ==
    /\ callback \in callbacks
    /\ lock[callback.deposit_claim.payer_deposit_account] = {}
    /\ claims' = IF DiscardClaimRaises(callback.deposit_claim) = "none"
                 THEN ClaimsAfterDiscard(claims, callback.deposit_claim)
                 ELSE claims
    /\ callbacks' = callbacks \ {callback}
    /\ last' = DiscardClaimEvent(callback.deposit_claim, "oracle")
    /\ UNCHANGED <<clients, accounts, subtasks, deposit, lock, next_pk, next_tx, w, deposit_changes>>

\* ----------------------------------------------- settle_overdue_acceptances
\* Lists of SubtaskResultsAccepted a caller passes: payment_ts and the
\* price of the accepted task.
AcceptanceLists ==
    {<<[payment_ts |-> 1, price |-> 1]>>,
     <<[payment_ts |-> 2, price |-> MaxCost], [payment_ts |-> 1, price |-> 1]>>}

Range(seq) == {seq[i] : i \in DOMAIN seq}

MinOf(set) == CHOOSE x \in set : \A y \in set : x <= y
MaxOf(set) == CHOOSE x \in set : \A y \in set : x >= y

RECURSIVE sum_payments(_)
\* sum([item.amount for item in payments])
sum_payments(payments) ==
    IF payments = << >> THEN 0 ELSE Head(payments).amount + sum_payments(Tail(payments))

RECURSIVE sum_subtask_price(_)
\* sum of task_to_compute.price over the acceptances
sum_subtask_price(subtask_results_accepted_list) ==
    IF subtask_results_accepted_list = << >> THEN 0
    ELSE Head(subtask_results_accepted_list).price
         + sum_subtask_price(Tail(subtask_results_accepted_list))

\* A variant that pays also when exactly nothing is payable; C14 tells it
\* from the definition below.
NothingPayable_Strict(requestor_payable_amount) == requestor_payable_amount < 0

\* "if requestor_payable_amount <= 0: return None"
NothingPayable(requestor_payable_amount) == requestor_payable_amount <= 0

\* What a call of settle_overdue_acceptances that ends in this step reports;
\* the payable amount is given when the call computed it.
SettleEvent(wk, acceptances, requestor_deposit, sum, amount_pending, payable, calls, ret, exc) ==
    [op |-> "settle_overdue_acceptances",
     acceptances |-> acceptances,
     requestor_deposit |-> requestor_deposit,
     sum_requestor |-> sum,
     amount_pending |-> amount_pending,
     requestor_payable_amount |-> payable,
     claims_before |-> claims,
     calls |-> calls,
     ret |-> ret,
     exc |-> exc]

\* The two transactions that create the Client and the DepositAccount, and
\* the oracle read of the requestor's deposit.
SettleOverdueAcceptancesBegin(wk, acceptances) ==
    /\ FirstFree(wk)
    /\ next_pk + RowsReserved + 1 <= MaxClaims + 1
    /\ next_tx + TxReserved <= MaxTx
    /\ clients' = GetOrCreateClient(clients, RequestorPublicKey)
    /\ accounts' = GetOrCreateAccount(accounts, RequestorPublicKey, RequestorAddress)
    /\ w' = [w EXCEPT ![wk] =
               [IdleWorker EXCEPT
                  !.pc = "so_lock",
                  !.acceptances = acceptances,
                  !.requestor_deposit = deposit[RequestorAddress]]]
    /\ last' = NoEvent
    /\ UNCHANGED <<claims, subtasks, deposit, lock, callbacks, next_pk, next_tx, deposit_changes>>

\* The locking transaction up to the payment: the row lock, the sum of the
\* requestor's claims, the oracle's lists of payments, their validation and
\* the payable amount.
SettleOverdueAcceptancesLock(wk) ==
    LET
        \* Batch transfers the oracle reports for the pair since T0.
        BatchTransferLists ==
            {<< >>, <<[amount |-> 1, closure_time |-> 1]>>, <<[amount |-> 1, closure_time |-> 2]>>}
        \* Forced payments the oracle reports for the pair since T0.
        ForcedPaymentLists == {<< >>, <<[amount |-> 1, closure_time |-> 1]>>}
        \* get_provider_payment_info: (amount_paid, amount_pending)
        get_provider_payment_info(list_of_forced_payments, list_of_payments, subtask_results_accepted_list) ==
            LET amount_paid == sum_payments(list_of_payments) + sum_payments(list_of_forced_payments)
            IN <<amount_paid, sum_subtask_price(subtask_results_accepted_list) - amount_paid>>
        \* service.get_list_of_payments hands current_time = None to the backend
        \* named by settings.PAYMENT_BACKEND; sci_backend.get_list_of_payments asserts
        \* that it is an int, another backend may answer.
        GetListOfPaymentsMayRaise == TRUE
        \* validate_list_of_transaction_timestamp passes: no reported transaction is
        \* younger than the payment_ts of an acceptance.
        ValidListOfTransactionTimestamp(list_of_transactions, acceptances) ==
            \/ list_of_transactions = << >>
            \/ LET youngest == MaxOf({t.closure_time : t \in Range(list_of_transactions)})
               IN \A a \in Range(acceptances) : ~(youngest > a.payment_ts)
        \* requestor_payable_amount
        RequestorPayableAmount(amount_pending, requestor_deposit_value, sum_of_existing_claims) ==
            Min(amount_pending, requestor_deposit_value - sum_of_existing_claims)
    IN
    /\ w[wk].pc = "so_lock"
    /\ lock[RequestorAddress] = {}
    /\ LET sum == SumAmounts(ClaimsOf(RequestorAddress))
           acceptances == w[wk].acceptances
           requestor_deposit == w[wk].requestor_deposit
       IN IF RequestorDepositTooSmall(requestor_deposit, sum)
          THEN /\ w' = [w EXCEPT ![wk] = IdleWorker]
               /\ last' = SettleEvent(wk, acceptances, requestor_deposit, sum, 0, {}, << >>, {}, "none")
               /\ UNCHANGED lock
          ELSE \/ /\ GetListOfPaymentsMayRaise
                  /\ w' = [w EXCEPT ![wk] = IdleWorker]
                  /\ last' = SettleEvent(wk, acceptances, requestor_deposit, sum, 0, {},
                                         << >>, {}, "AssertionError")
                  /\ UNCHANGED lock
               \/ \E list_of_transactions \in BatchTransferLists,
                  list_of_forced_payments \in ForcedPaymentLists :
                 LET amount_pending == get_provider_payment_info(list_of_forced_payments,
                                                                 list_of_transactions,
                                                                 acceptances)[2]
                     payable == RequestorPayableAmount(amount_pending, requestor_deposit, sum)
                 IN IF ~ValidListOfTransactionTimestamp(list_of_transactions, acceptances)
                    THEN /\ w' = [w EXCEPT ![wk] = IdleWorker]
                         /\ last' = SettleEvent(wk, acceptances, requestor_deposit, sum, 0, {},
                                                << >>, {}, "BanksterTimestampError")
                         /\ UNCHANGED lock
                    ELSE IF NothingPayable(payable)
                    THEN /\ w' = [w EXCEPT ![wk] = IdleWorker]
                         /\ last' = SettleEvent(wk, acceptances, requestor_deposit, sum,
                                                amount_pending, {payable}, << >>, {}, "none")
                         /\ UNCHANGED lock
                    ELSE /\ w' = [w EXCEPT ![wk].pc = "so_pay",
                                            ![wk].sum_requestor = sum,
                                            ![wk].amount_pending = amount_pending,
                                            ![wk].requestor_payable_amount = payable]
                         /\ lock' = SelectForUpdate(lock, RequestorAddress, wk)
                         /\ last' = NoEvent
    /\ UNCHANGED <<clients, accounts, claims, subtasks, deposit, callbacks, next_pk, next_tx, deposit_changes>>

\* Holding the row lock: the forced payment, the adjustment of what it
\* returned, the INSERT of the FORCED_PAYMENT claim, and the commit.  An
\* exception rolls the transaction back; the payment it sent to the chain
\* stays sent.
SettleOverdueAcceptancesPay(wk) ==
    LET
        \* The DepositClaim built for a forced payment.
        ForcedPaymentClaim(pk, amount, tx_hash, youngest_payment_ts) ==
            [id |-> pk,
             subtask_id |-> NoSubtask,
             payee_ethereum_address |-> ProviderAddress,
             amount |-> amount,
             concent_use_case |-> FORCED_PAYMENT,
             payer_deposit_account |-> RequestorAddress,
             tx_hash |-> tx_hash,
             closure_time |-> {youngest_payment_ts}]
        \* service.make_force_payment_to_provider as sci_backend carries it out: the
        \* value is lowered to the requestor's balance at the time of the call, the
        \* RPC's force_payment is called, and nothing is returned.
        make_force_payment_to_provider(requestor_eth_address, provider_eth_address, value, payment_ts) ==
            [function |-> "make_force_payment_to_provider",
             requestor_eth_address |-> requestor_eth_address,
             provider_eth_address |-> provider_eth_address,
             value |-> value,
             payment_ts |-> payment_ts,
             force_payment_value |-> Min(deposit[requestor_eth_address], value),
             ret |-> NoHash]
        \* What adjust_transaction_hash does with its argument: a hash is padded;
        \* given None it either raises or hands None back.
        AdjustTransactionHashOutcomes(tx_hash) ==
            IF tx_hash = NoHash
            THEN {[exc |-> "TypeError", ret |-> NoHash], [exc |-> "none", ret |-> NoHash]}
            ELSE {[exc |-> "none", ret |-> adjust_transaction_hash(tx_hash)]}
    IN
    /\ w[wk].pc = "so_pay"
    /\ LET youngest_payment_ts == MaxOf({a.payment_ts : a \in Range(w[wk].acceptances)})
           call == make_force_payment_to_provider(RequestorAddress, ProviderAddress,
                                                  w[wk].requestor_payable_amount,
                                                  youngest_payment_ts)
       IN \E adjusted \in AdjustTransactionHashOutcomes(call.ret) :
            LET claim_against_requestor ==
                    ForcedPaymentClaim(next_pk, w[wk].requestor_payable_amount,
                                       adjusted.ret, youngest_payment_ts)
            IN IF adjusted.exc = "none"
               THEN /\ claims' = claims \cup {claim_against_requestor}
                    /\ next_pk' = next_pk + 1
                    /\ last' = SettleEvent(wk, w[wk].acceptances, w[wk].requestor_deposit,
                                           w[wk].sum_requestor, w[wk].amount_pending,
                                           {w[wk].requestor_payable_amount},
                                           <<call>>, {claim_against_requestor}, "none")
               ELSE /\ last' = SettleEvent(wk, w[wk].acceptances, w[wk].requestor_deposit,
                                           w[wk].sum_requestor, w[wk].amount_pending,
                                           {w[wk].requestor_payable_amount},
                                           <<call>>, {}, adjusted.exc)
                    /\ UNCHANGED <<claims, next_pk>>
    /\ lock' = [lock EXCEPT ![RequestorAddress] = {}]
    /\ w' = [w EXCEPT ![wk] = IdleWorker]
    /\ next_tx' = next_tx + 1
    /\ UNCHANGED <<clients, accounts, subtasks, deposit, callbacks, deposit_changes>>

\* -------------------------------------------------------------- environment
\* The chain moves: a client tops up or withdraws, or a payment lands. A call
\* reads the oracle in its first step only, so what matters is where a change
\* falls among the first steps of the calls: changes are taken while the
\* second worker is idle.
DepositChange(address, value) ==
    /\ deposit_changes < MaxDepositChanges
    /\ w["w2"].pc = "idle"
    /\ deposit[address] # value
    /\ deposit' = [deposit EXCEPT ![address] = value]
    /\ deposit_changes' = deposit_changes + 1
    /\ last' = NoEvent
    /\ UNCHANGED <<clients, accounts, claims, subtasks, lock, callbacks, next_pk, next_tx, w>>

\* ---------------------------------------------------------- MiddleMan relay
\* Front-end connections, by connection id.
Connections == {"c1", "c2"}

\* middleman_protocol.constants.REQUEST_ID_FOR_RESPONSE_FOR_INVALID_FRAME
REQUEST_ID_FOR_RESPONSE_FOR_INVALID_FRAME == 99999999

\* ERRORS_THAT_CAUSE_CURRENT_ITERATION_ENDS
ERRORS_THAT_CAUSE_CURRENT_ITERATION_ENDS ==
    {"FrameInvalidMiddlemanProtocolError",
     "BrokenEscapingInFrameMiddlemanProtocolError",
     "SignatureInvalidMiddlemanProtocolError",
     "PayloadTypeInvalidMiddlemanProtocolError"}

\* The exceptions of middleman_protocol.exceptions and the plain Exception.
MiddlemanProtocolExceptions ==
    {"PayloadTypeInvalidMiddlemanProtocolError",
     "RequestIdInvalidTypeMiddlemanProtocolError",
     "SignatureInvalidMiddlemanProtocolError",
     "PayloadInvalidMiddlemanProtocolError",
     "FrameInvalidMiddlemanProtocolError",
     "BrokenEscapingInFrameMiddlemanProtocolError",
     "MiddlemanProtocolError",
     "Exception"}

\* A variant that reports a failed signature as an invalid frame; C25 tells
\* it from the definition below.
map_exception_to_error_code_Structural(exception) ==
    CASE exception \in {"PayloadTypeInvalidMiddlemanProtocolError",
                        "PayloadInvalidMiddlemanProtocolError"} -> "InvalidPayload"
      [] exception \in {"RequestIdInvalidTypeMiddlemanProtocolError",
                        "FrameInvalidMiddlemanProtocolError",
                        "SignatureInvalidMiddlemanProtocolError"} -> "InvalidFrame"
      [] OTHER -> "Unknown"

\* map_exception_to_error_code: the error code of constants.ErrorCode that
\* goes on the wire for an exception.
map_exception_to_error_code(exception) ==
    CASE exception \in {"PayloadTypeInvalidMiddlemanProtocolError",
                        "PayloadInvalidMiddlemanProtocolError"} -> "InvalidPayload"
      [] exception \in {"RequestIdInvalidTypeMiddlemanProtocolError",
                        "FrameInvalidMiddlemanProtocolError"} -> "InvalidFrame"
      [] exception = "SignatureInvalidMiddlemanProtocolError" -> "InvalidFrameSignature"
      [] OTHER -> "Unknown"

\* create_middleman_protocol_message: the frame of the class registered for
\* the payload type, holding the payload and the request id.
create_middleman_protocol_message(payload_type, payload, request_id) ==
    [payload_type |-> payload_type, payload |-> payload, request_id |-> request_id]

ResponseQueueItem(message, concent_request_id) ==
    [message |-> message, concent_request_id |-> concent_request_id]

\* create_error_frame: ErrorFrame((error_code, str(exception)), REQUEST_ID_...)
create_error_frame(exception) ==
    [error_code |-> map_exception_to_error_code(exception),
     error |-> exception,
     request_id |-> REQUEST_ID_FOR_RESPONSE_FOR_INVALID_FRAME]

IsErrorFrame(message) == "error_code" \in DOMAIN message

\* A variant that answers an invalid frame under request id 1; C20 tells it
\* from the definition below.
ErrorItem_WrongId(exception) == ResponseQueueItem(create_error_frame(exception), 1)

\* The item request_producer puts on the response queue for an invalid frame.
ErrorItem(exception) ==
    ResponseQueueItem(create_error_frame(exception), REQUEST_ID_FOR_RESPONSE_FOR_INVALID_FRAME)

IsAnswer(message) == "answer_to" \in DOMAIN message

\* Keys of the tracker, and the place of a key in insertion order.
TrackerKeys(tracker) == {tracker[i].key : i \in DOMAIN tracker}
TrackerIndex(tracker, key) == CHOOSE i \in DOMAIN tracker : tracker[i].key = key

\* A variant that deletes nothing; C33 tells it from the definition below.
TrackerDel_None(tracker, key) == tracker

\* del message_tracker[key]
TrackerDel(tracker, key) ==
    LET i == TrackerIndex(tracker, key)
    IN SubSeq(tracker, 1, i - 1) \o SubSeq(tracker, i + 1, Len(tracker))

\* A variant that pops nothing; C16 tells it from the definition below.
discard_entries_for_lost_messages_None(current_request_id, tracker) == tracker

\* discard_entries_for_lost_messages: counts the entries in front of the
\* current request id and pops that many from the front; pops nothing when
\* the id is not there.
discard_entries_for_lost_messages(current_request_id, tracker) ==
    LET lost_messages_counter ==
            IF current_request_id \in TrackerKeys(tracker)
            THEN TrackerIndex(tracker, current_request_id) - 1
            ELSE Len(tracker)
    IN IF lost_messages_counter = Len(tracker)
       THEN tracker
       ELSE SubSeq(tracker, lost_messages_counter + 1, Len(tracker))

\* A variant of the shared queue that hands out the newest item first; C18
\* tells it from the definition below.
QueuePut_Front(queue, item) == <<item>> \o queue

\* Queue.put: the item goes to the end; Queue.get takes from the front.
QueuePut(queue, item) == Append(queue, item)

\* A variant of the response queue that hands out the newest item first; C19
\* tells it from the definition below.
ResponseQueuePut_Front(queue, item) == <<item>> \o queue

\* Queue.put on a connection's response queue.
ResponseQueuePut(queue, item) == Append(queue, item)

\* A variant that takes every connection to be in the pool; C31 tells it
\* from the definition below.
ConnectionInPool_Always(connection_id) == TRUE

\* "connection_id in response_queue_pool": the connection is still open.
ConnectionInPool(connection_id) == connection_id \in response_queue_pool

\* A variant that skips an id; C32 tells it from the definition below.
NextRequestId_Skip(previous) == (previous + 2) % CONNECTION_COUNTER_LIMIT

\* The Signing Service request id after the previous one.
NextRequestId(previous) == (previous + 1) % CONNECTION_COUNTER_LIMIT

\* The response_producer waiting for its next frame.
ResponseProducerIdle == [pc |-> "receive"]

\* ---- events
RequestProducerEvent(connection_id, exception) ==
    [op |-> "request_producer",
     connection_id |-> connection_id,
     exception |-> exception,
     request_queue_before |-> request_queue,
     response_queue_before |-> response_queue]

\* outcome: "invalid", "no entry", "no queue", "blocked", "delivered"
ResponseProducerEvent(frame, outcome, frame_tracker) ==
    [op |-> "response_producer",
     frame |-> frame,
     outcome |-> outcome,
     frame_tracker |-> frame_tracker,
     tracker_before |-> message_tracker]

\* ---- front-end connections
\* A front end connects: its response queue is put into the pool and its
\* request_producer and response_consumer start.  Connection ids are handed
\* out in order.
OpenConnection(connection_id) ==
    /\ producer[connection_id] = "new"
    /\ connection_id = "c2" => producer["c1"] # "new"
    /\ producer' = [producer EXCEPT ![connection_id] = "running"]
    /\ response_queue_pool' = response_queue_pool \cup {connection_id}
    /\ last' = NoEvent
    /\ UNCHANGED invalid_frames
    /\ UNCHANGED <<request_queue, response_queue, message_tracker, signing_service_request_id,
                   signing_service_pending, signing_service_reader, response_producer,
                   next_message, answer_no, last_sent, last_written>>

\* request_producer reads the end of its stream (IncompleteReadError: break)
\* and the connection's queue leaves the pool.
CloseConnection(connection_id) ==
    /\ producer[connection_id] = "running"
    /\ producer' = [producer EXCEPT ![connection_id] = "ended"]
    /\ response_queue_pool' = response_queue_pool \ {connection_id}
    /\ last' = NoEvent
    /\ UNCHANGED invalid_frames
    /\ UNCHANGED <<request_queue, response_queue, message_tracker, signing_service_request_id,
                   signing_service_pending, signing_service_reader, response_producer,
                   next_message, answer_no, last_sent, last_written>>

\* request_producer reads a valid frame and puts a RequestQueueItem on the
\* shared request queue.  The front ends number their requests: a frame
\* carries its number as request id.
RequestProducerRequest(connection_id) ==
    LET
        \* The payload of a valid request frame. A payload is told from every other
        \* by the number of its frame; the connection and the request id it came
        \* with are kept beside it for the claims, the relay does not look at them.
        Payload(no, connection, request_id) ==
            [no |-> no, connection_id |-> connection, request_id |-> request_id]
        RequestQueueItem(connection, concent_request_id, message) ==
            [connection_id |-> connection,
             concent_request_id |-> concent_request_id,
             message |-> message]
    IN
    /\ producer[connection_id] = "running"
    /\ next_message <= MaxMessages
    /\ Len(request_queue) < MaxQueue
    /\ request_queue' = QueuePut(request_queue,
                                 RequestQueueItem(connection_id, next_message,
                                                  Payload(next_message, connection_id,
                                                          next_message)))
    /\ next_message' = next_message + 1
    /\ last' = RequestProducerEvent(connection_id, "none")
    /\ UNCHANGED invalid_frames
    /\ UNCHANGED <<producer, response_queue_pool, response_queue, message_tracker,
                   signing_service_request_id, signing_service_pending, signing_service_reader,
                   response_producer, answer_no, last_sent, last_written>>

\* A variant that leaves the loop on such a frame; C34 tells it from the
\* definition below.
RequestProducerError_Breaks(connection_id, exception) ==
    /\ producer[connection_id] = "running"
    /\ next_message <= MaxMessages
    /\ invalid_frames < MaxInvalidFrames
    /\ Len(response_queue[connection_id]) < MaxQueue
    /\ response_queue' = [response_queue EXCEPT
                            ![connection_id] = ResponseQueuePut(@, ErrorItem(exception))]
    /\ producer' = [producer EXCEPT ![connection_id] = "ended"]
    /\ next_message' = next_message + 1
    /\ invalid_frames' = invalid_frames + 1
    /\ last' = RequestProducerEvent(connection_id, exception)
    /\ UNCHANGED <<response_queue_pool, request_queue, message_tracker,
                   signing_service_request_id, signing_service_pending, signing_service_reader,
                   response_producer, answer_no, last_sent, last_written>>

\* request_producer reads a frame that raises one of the errors that end the
\* iteration: an error item goes on the connection's response queue and the
\* loop continues.
RequestProducerError(connection_id, exception) ==
    /\ producer[connection_id] = "running"
    /\ next_message <= MaxMessages
    /\ invalid_frames < MaxInvalidFrames
    /\ Len(response_queue[connection_id]) < MaxQueue
    /\ response_queue' = [response_queue EXCEPT
                            ![connection_id] = ResponseQueuePut(@, ErrorItem(exception))]
    /\ next_message' = next_message + 1
    /\ invalid_frames' = invalid_frames + 1
    /\ last' = RequestProducerEvent(connection_id, exception)
    /\ UNCHANGED <<producer, response_queue_pool, request_queue, message_tracker,
                   signing_service_request_id, signing_service_pending, signing_service_reader,
                   response_producer, answer_no, last_sent, last_written>>

\* ---- request_consumer
\* One iteration: an item whose connection has left the pool is dropped;
\* otherwise the next Signing Service request id is taken, the tracker entry
\* is written under it and the frame is sent upstream.
RequestConsumer ==
    LET
        MessageTrackerItem(key, concent_request_id, connection_id, message) ==
            [key |-> key,
             concent_request_id |-> concent_request_id,
             connection_id |-> connection_id,
             message |-> message]
        \* message_tracker[key] = item on an OrderedDict: a new key goes to the end,
        \* a key already there keeps its place and gets the new value.
        TrackerSet(tracker, item) ==
            IF item.key \in TrackerKeys(tracker)
            THEN [tracker EXCEPT ![TrackerIndex(tracker, item.key)] = item]
            ELSE Append(tracker, item)
        RequestConsumerEvent(item, forwarded) ==
            [op |-> "request_consumer",
             item |-> item,
             forwarded |-> forwarded,
             upstream_closed |-> response_producer.pc = "ended",
             last_sent_before |-> last_sent]
    IN
    /\ request_queue # << >>
    /\ LET item == Head(request_queue)
           id == NextRequestId(signing_service_request_id)
       IN IF ~ConnectionInPool(item.connection_id)
          THEN /\ last' = RequestConsumerEvent(item, FALSE)
               /\ UNCHANGED <<message_tracker, signing_service_request_id,
                              signing_service_pending, last_sent>>
          ELSE /\ signing_service_request_id' = id
               /\ message_tracker' =
                     TrackerSet(message_tracker,
                                MessageTrackerItem(id, item.concent_request_id,
                                                   item.connection_id, item.message))
               /\ signing_service_pending' =
                     signing_service_pending \cup {[request_id |-> id, payload |-> item.message]}
               /\ last_sent' = [last_sent EXCEPT ![item.connection_id] = item.message.no]
               /\ last' = RequestConsumerEvent(item, TRUE)
    /\ request_queue' = Tail(request_queue)
    /\ UNCHANGED invalid_frames
    /\ UNCHANGED <<producer, response_queue_pool, response_queue, signing_service_reader,
                   response_producer, next_message, answer_no, last_written>>

\* ---- the Signing Service
\* It answers one of the requests it holds, in any order, under the request
\* id the request came with.
SigningServiceAnswer(frame) ==
    LET
        \* The answer of the Signing Service to a payload.
        Answer(message, no) == [answer_to |-> message, answer_no |-> no]
    IN
    /\ frame \in signing_service_pending
    /\ response_producer.pc # "ended"
    /\ Len(signing_service_reader) < MaxQueue
    /\ signing_service_pending' = signing_service_pending \ {frame}
    /\ answer_no' = answer_no + 1
    /\ signing_service_reader' =
          Append(signing_service_reader,
                 [request_id |-> frame.request_id,
                  payload |-> Answer(frame.payload, answer_no + 1)])
    /\ last' = NoEvent
    /\ UNCHANGED invalid_frames
    /\ UNCHANGED <<producer, response_queue_pool, request_queue, response_queue, message_tracker,
                   signing_service_request_id, response_producer, next_message,
                   last_sent, last_written>>

\* It answers a request and sends the frame of its answer a second time,
\* byte for byte; the second frame is marked for the claims, the relay does
\* not look at the mark.
SigningServiceAnswerTwice(frame) ==
    LET
        answer == [request_id |-> frame.request_id,
                   payload |-> [answer_to |-> frame.payload, answer_no |-> answer_no + 1]]
        repeated == [request_id |-> answer.request_id, payload |-> answer.payload, repeats |-> TRUE]
    IN
    /\ frame \in signing_service_pending
    /\ response_producer.pc # "ended"
    /\ Len(signing_service_reader) + 1 < MaxQueue
    /\ signing_service_pending' = signing_service_pending \ {frame}
    /\ answer_no' = answer_no + 1
    /\ signing_service_reader' = signing_service_reader \o <<answer, repeated>>
    /\ last' = NoEvent
    /\ UNCHANGED invalid_frames
    /\ UNCHANGED <<producer, response_queue_pool, request_queue, response_queue, message_tracker,
                   signing_service_request_id, response_producer, next_message,
                   last_sent, last_written>>

\* ---- response_producer
\* One iteration up to the put: a valid frame is read; a frame
\* without tracker entry and a frame whose connection has left the pool end
\* the iteration; otherwise the entries in front of the frame's are dropped
\* and the response item is put on the connection's queue, at once when the
\* queue has room (the entry is deleted in the same step), later otherwise.
ResponseProducerReceive ==
    /\ response_producer.pc = "receive"
    /\ signing_service_reader # << >>
    /\ signing_service_reader' = Tail(signing_service_reader)
    /\ LET frame == Head(signing_service_reader)
       IN IF frame.request_id \notin TrackerKeys(message_tracker)
          THEN /\ last' = ResponseProducerEvent(frame, "no entry", message_tracker)
               /\ UNCHANGED <<message_tracker, response_queue, response_producer>>
          ELSE LET current_track ==
                       message_tracker[TrackerIndex(message_tracker, frame.request_id)]
                   item == ResponseQueueItem(frame.payload, current_track.concent_request_id)
                   kept == discard_entries_for_lost_messages(frame.request_id, message_tracker)
               IN IF ~ConnectionInPool(current_track.connection_id)
                  THEN /\ message_tracker' = TrackerDel(message_tracker, frame.request_id)
                       /\ last' = ResponseProducerEvent(frame, "no queue", message_tracker)
                       /\ UNCHANGED <<response_queue, response_producer>>
                  ELSE IF Len(response_queue[current_track.connection_id]) < MaxQueue
                  THEN /\ message_tracker' = TrackerDel(kept, frame.request_id)
                       /\ response_queue' =
                             [response_queue EXCEPT
                                ![current_track.connection_id] = ResponseQueuePut(@, item)]
                       /\ last' = ResponseProducerEvent(frame, "delivered", message_tracker)
                       /\ UNCHANGED response_producer
                  ELSE /\ message_tracker' = kept
                       /\ response_producer' =
                             [pc |-> "put",
                              frame |-> frame,
                              connection_id |-> current_track.connection_id,
                              item |-> item,
                              frame_tracker |-> message_tracker]
                       /\ last' = ResponseProducerEvent(frame, "blocked", message_tracker)
                       /\ UNCHANGED response_queue
    /\ UNCHANGED invalid_frames
    /\ UNCHANGED <<producer, response_queue_pool, request_queue, signing_service_request_id,
                   signing_service_pending, next_message, answer_no, last_sent, last_written>>

\* response_producer reads a frame that raises one of the errors that end
\* the iteration: it is logged and the loop continues.
ResponseProducerInvalidFrame(exception) ==
    /\ response_producer.pc = "receive"
    /\ signing_service_reader = << >>
    /\ last' = ResponseProducerEvent([request_id |-> 0, payload |-> << >>, exception |-> exception],
                                     "invalid", message_tracker)
    /\ UNCHANGED relay_vars

\* The put that had to wait for room completes, and the entry under the
\* frame's request id is deleted.
ResponseProducerPut ==
    /\ response_producer.pc = "put"
    /\ Len(response_queue[response_producer.connection_id]) < MaxQueue
    /\ response_queue' =
          [response_queue EXCEPT
             ![response_producer.connection_id] = ResponseQueuePut(@, response_producer.item)]
    /\ message_tracker' = TrackerDel(message_tracker, response_producer.frame.request_id)
    /\ response_producer' = ResponseProducerIdle
    /\ last' = ResponseProducerEvent(response_producer.frame, "delivered",
                                     response_producer.frame_tracker)
    /\ UNCHANGED invalid_frames
    /\ UNCHANGED <<producer, response_queue_pool, request_queue, signing_service_request_id,
                   signing_service_pending, signing_service_reader, next_message, answer_no,
                   last_sent, last_written>>

\* The Signing Service closes the connection: IncompleteReadError, break.
SigningServiceClose ==
    LET
        \* The response_producer has read the end of the upstream stream.
        SigningServiceCloseEvent ==
            [op |-> "signing_service_close",
             tracker |-> message_tracker,
             response_queue_before |-> response_queue]
    IN
    /\ response_producer.pc = "receive"
    /\ signing_service_reader = << >>
    /\ response_producer' = [pc |-> "ended"]
    /\ last' = SigningServiceCloseEvent
    /\ UNCHANGED invalid_frames
    /\ UNCHANGED <<producer, response_queue_pool, request_queue, response_queue, message_tracker,
                   signing_service_request_id, signing_service_pending, signing_service_reader,
                   next_message, answer_no, last_sent, last_written>>

\* ---- response_consumer
\* One iteration: the item at the front of the connection's queue is written
\* to the connection as a frame of payload type GOLEM_MESSAGE under the
\* item's concent_request_id.
ResponseConsumer(connection_id) ==
    LET
        ResponseConsumerEvent(connection, frame) ==
            [op |-> "response_consumer",
             connection_id |-> connection,
             frame |-> frame,
             last_written_before |-> last_written]
    IN
    /\ response_queue[connection_id] # << >>
    /\ LET item == Head(response_queue[connection_id])
           frame == create_middleman_protocol_message("GOLEM_MESSAGE", item.message,
                                                      item.concent_request_id)
       IN /\ last' = ResponseConsumerEvent(connection_id, frame)
          /\ last_written' =
                IF IsAnswer(item.message)
                THEN [last_written EXCEPT ![connection_id] = item.message.answer_no]
                ELSE last_written
    /\ response_queue' = [response_queue EXCEPT ![connection_id] = Tail(@)]
    /\ UNCHANGED invalid_frames
    /\ UNCHANGED <<producer, response_queue_pool, request_queue, message_tracker,
                   signing_service_request_id, signing_service_pending, signing_service_reader,
                   response_producer, next_message, answer_no, last_sent>>

\* The relay before any connection.
RelayStart ==
    /\ producer = [c \in Connections |-> "new"]
    /\ response_queue_pool = {}
    /\ request_queue = << >>
    /\ response_queue = [c \in Connections |-> << >>]
    /\ message_tracker = << >>
    /\ signing_service_request_id = 0
    /\ signing_service_pending = {}
    /\ signing_service_reader = << >>
    /\ response_producer = ResponseProducerIdle
    /\ next_message = 1
    /\ invalid_frames = 0
    /\ answer_no = 0
    /\ last_sent = [c \in Connections |-> 0]
    /\ last_written = [c \in Connections |-> 0]

\* ------------------------------------------------------------- frame codec
\* Bytes are the numbers 0 .. 4.  Two of them are the escape character and
\* the frame separator, two more are the second bytes of the escape
\* sequences, which may also occur in a frame as plain bytes.
ESCAPE_CHARACTER == 1
FRAME_SEPARATOR == 2
ESCAPED_ESCAPE_CHARACTER == 3
ESCAPED_FRAME_SEPARATOR == 4
Bytes == 0 .. 4

\* ESCAPE_SEQUENCES: the two bytes that stand for a byte that must not occur
\* bare in escaped data.
ESCAPE_SEQUENCES(byte) ==
    IF byte = ESCAPE_CHARACTER THEN <<ESCAPE_CHARACTER, ESCAPED_ESCAPE_CHARACTER>>
    ELSE <<ESCAPE_CHARACTER, ESCAPED_FRAME_SEPARATOR>>

\* The signature has a fixed length.
FRAME_SIGNATURE_BYTES_LENGTH == 1

\* The header in front of the payload: payload type, request id, length.
HeaderLength == 3

PublicKeys == {"CONCENT_PUBLIC_KEY", "SIGNING_SERVICE_PUBLIC_KEY"}
PrivateKeyOf(public_key) ==
    IF public_key = "CONCENT_PUBLIC_KEY" THEN "CONCENT_PRIVATE_KEY"
    ELSE "SIGNING_SERVICE_PRIVATE_KEY"

\* The byte of a payload type on the wire, and back.
PayloadTypeByte(payload_type) ==
    CASE payload_type = "GOLEM_MESSAGE" -> 0
      [] payload_type = "ERROR" -> 1
      [] payload_type = "AUTHENTICATION_CHALLENGE" -> 2
      [] payload_type = "AUTHENTICATION_RESPONSE" -> 3

RECURSIVE WeightedSum(_, _)
WeightedSum(bytes, i) ==
    IF i > Len(bytes) THEN 0 ELSE i * bytes[i] + WeightedSum(bytes, i + 1)

\* The signature of a byte string under a private key: a fixed number of
\* bytes that depend on the key and on every byte signed.
Sign(private_key, bytes) ==
    <<(WeightedSum(bytes, 1) + Len(bytes)
        + (IF private_key = "CONCENT_PRIVATE_KEY" THEN 1 ELSE 3)) % 5>>

\* A variant that lets a separator byte through unescaped; C24 tells it from
\* the definition below.
RECURSIVE escape_encode_raw_message_EscapeOnly(_)
escape_encode_raw_message_EscapeOnly(raw) ==
    IF raw = << >> THEN << >>
    ELSE (IF Head(raw) = ESCAPE_CHARACTER
          THEN ESCAPE_SEQUENCES(Head(raw))
          ELSE <<Head(raw)>>) \o escape_encode_raw_message_EscapeOnly(Tail(raw))

\* escape_encode_raw_message: every escape character and every frame
\* separator is replaced by its escape sequence.
RECURSIVE escape_encode_raw_message(_)
escape_encode_raw_message(raw) ==
    IF raw = << >> THEN << >>
    ELSE (IF Head(raw) \in {ESCAPE_CHARACTER, FRAME_SEPARATOR}
          THEN ESCAPE_SEQUENCES(Head(raw))
          ELSE <<Head(raw)>>) \o escape_encode_raw_message(Tail(raw))

\* escape_decode_raw_message: the escape sequences are replaced by the bytes
\* they stand for; an escape character followed by anything else, or by
\* nothing, is broken escaping.  The result is the bytes, or << -1 >> for
\* broken escaping.
BrokenEscaping == <<-1>>

RECURSIVE escape_decode_raw_message(_)
escape_decode_raw_message(data) ==
    IF data = << >> THEN << >>
    ELSE IF Head(data) # ESCAPE_CHARACTER
    THEN LET rest == escape_decode_raw_message(Tail(data))
         IN IF rest = BrokenEscaping THEN BrokenEscaping ELSE <<Head(data)>> \o rest
    ELSE IF Len(data) < 2
            \/ data[2] \notin {ESCAPED_ESCAPE_CHARACTER, ESCAPED_FRAME_SEPARATOR}
    THEN BrokenEscaping
    ELSE LET rest == escape_decode_raw_message(Tail(Tail(data)))
         IN IF rest = BrokenEscaping THEN BrokenEscaping
            ELSE <<IF data[2] = ESCAPED_ESCAPE_CHARACTER
                   THEN ESCAPE_CHARACTER ELSE FRAME_SEPARATOR>> \o rest

Raised(exception) ==
    LET
        \* What receiving ends with: a frame, or an exception raised.
        NoFrame == [payload_type |-> "none", payload |-> << >>, request_id |-> -1]
    IN
    [exception |-> exception, frame |-> NoFrame]
IsException(result) == result.exception # "none"

\* handle_frame_receive_async(reader, public_key): the frame, or the
\* exception raised.
handle_frame_receive_async(stream, public_key) ==
    LET
        \* PayloadType of middleman_protocol.constants.
        PayloadType == {"GOLEM_MESSAGE", "ERROR", "AUTHENTICATION_CHALLENGE", "AUTHENTICATION_RESPONSE"}
        \* reader.readuntil(FRAME_SEPARATOR) without the separator: the bytes in
        \* front of the first separator of the stream.
        ReadUntilSeparator(reader) ==
            LET first == CHOOSE i \in DOMAIN reader :
                            /\ reader[i] = FRAME_SEPARATOR
                            /\ \A j \in 1 .. i - 1 : reader[j] # FRAME_SEPARATOR
            IN SubSeq(reader, 1, first - 1)
        \* AbstractFrame.deserialize(raw, public_key): the frame, or the exception.
        \* The header and the payload are read by their lengths, the signature
        \* behind them is verified, then the payload type is looked up; bytes
        \* behind the signature are not looked at.
        deserialize(raw, key) ==
            LET
                PayloadTypeOfByte(byte) == CHOOSE t \in PayloadType : PayloadTypeByte(t) = byte
                Returned(frame) == [exception |-> "none", frame |-> frame]
            IN
            IF Len(raw) < HeaderLength + FRAME_SIGNATURE_BYTES_LENGTH
               \/ Len(raw) < HeaderLength + raw[HeaderLength] + FRAME_SIGNATURE_BYTES_LENGTH
            THEN Raised("FrameInvalidMiddlemanProtocolError")
            ELSE LET length == raw[HeaderLength]
                     signed_part == SubSeq(raw, 1, HeaderLength + length)
                     signature == SubSeq(raw, HeaderLength + length + 1,
                                         HeaderLength + length + FRAME_SIGNATURE_BYTES_LENGTH)
                 IN IF signature # Sign(PrivateKeyOf(key), signed_part)
                    THEN Raised("SignatureInvalidMiddlemanProtocolError")
                    ELSE IF \A t \in PayloadType : PayloadTypeByte(t) # raw[1]
                    THEN Raised("PayloadTypeInvalidMiddlemanProtocolError")
                    ELSE Returned([payload_type |-> PayloadTypeOfByte(raw[1]),
                                   payload |-> SubSeq(raw, HeaderLength + 1, HeaderLength + length),
                                   request_id |-> raw[2]])
    IN
    IF FRAME_SEPARATOR \notin Range(stream) THEN Raised("IncompleteReadError")
    ELSE LET raw == escape_decode_raw_message(ReadUntilSeparator(stream))
         IN IF raw = BrokenEscaping
            THEN Raised("BrokenEscapingInFrameMiddlemanProtocolError")
            ELSE deserialize(raw, public_key)

\* What send_over_stream_async(frame, writer, private_key) writes.
send_over_stream_async(frame, private_key) ==
    LET
        \* frame.serialize(private_key): the typed payload as bytes, with the
        \* signature of these bytes appended.
        serialize(message, signing_key) ==
            LET signed_part == <<PayloadTypeByte(message.payload_type), message.request_id,
                                 Len(message.payload)>> \o message.payload
            IN signed_part \o Sign(signing_key, signed_part)
        \* append_frame_separator
        append_frame_separator(data) == Append(data, FRAME_SEPARATOR)
    IN
    append_frame_separator(escape_encode_raw_message(serialize(frame, private_key)))

\* No frame on its way.
CodecRest == [pc |-> "rest"]

\* send_over_stream_async writes the frame to the stream.
SendOverStream ==
    /\ codec.pc = "send"
    /\ codec' = [pc |-> "sent",
                 frame |-> codec.frame,
                 private_key |-> codec.private_key,
                 stream |-> send_over_stream_async(codec.frame, codec.private_key),
                 intact |-> TRUE]

\* The sender writes the escape sequence of an escape character between the
\* frame and its separator.
AppendEscapedEscape ==
    /\ codec.pc = "sent"
    /\ codec.intact
    /\ codec' = [codec EXCEPT
                   !.pc = "padded",
                   !.stream = SubSeq(@, 1, Len(@) - 1) \o ESCAPE_SEQUENCES(ESCAPE_CHARACTER)
                                 \o <<FRAME_SEPARATOR>>]

\* One byte of the stream changes on the way.
Corrupt(byte) ==
    /\ codec.pc = "sent"
    /\ codec.intact
    /\ \E i \in DOMAIN codec.stream :
          /\ codec.stream[i] # byte
          /\ codec' = [codec EXCEPT !.stream[i] = byte, !.intact = FALSE]

\* handle_frame_receive_async reads the stream with a public key.
HandleFrameReceive(public_key) ==
    /\ codec.pc \in {"sent", "padded"}
    /\ codec' = [pc |-> "received",
                 frame |-> codec.frame,
                 private_key |-> codec.private_key,
                 stream |-> codec.stream,
                 intact |-> codec.intact,
                 public_key |-> public_key,
                 result |-> handle_frame_receive_async(codec.stream, public_key)]

\* Handling the frame fails with an exception of any kind.
HandlingRaises(exception) ==
    /\ codec.pc = "send"
    /\ codec' = [pc |-> "received",
                 frame |-> codec.frame,
                 private_key |-> codec.private_key,
                 stream |-> << >>,
                 intact |-> FALSE,
                 public_key |-> "none",
                 result |-> Raised(exception)]

\* The exception is mapped to the error code that goes on the wire.
MapExceptionToErrorCode ==
    /\ codec.pc = "received"
    /\ IsException(codec.result)
    /\ codec' = [pc |-> "mapped",
                 exception |-> codec.result.exception,
                 error_code |-> map_exception_to_error_code(codec.result.exception)]

CodecNext ==
    \/ SendOverStream /\ UNCHANGED outside_codec
    \/ AppendEscapedEscape /\ UNCHANGED outside_codec
    \/ \E byte \in Bytes : Corrupt(byte) /\ UNCHANGED outside_codec
    \/ \E public_key \in PublicKeys :
          HandleFrameReceive(public_key) /\ UNCHANGED outside_codec
    \/ \E exception \in MiddlemanProtocolExceptions :
          HandlingRaises(exception) /\ UNCHANGED outside_codec
    \/ MapExceptionToErrorCode /\ UNCHANGED outside_codec

\* ---- the writers of the streams
\* A variant that writes the data and the separator in two calls; C37 tells
\* it from the definition below.
WriteCalls_Split(frame, private_key) ==
    LET data == send_over_stream_async(frame, private_key)
    IN <<SubSeq(data, 1, Len(data) - 1), <<FRAME_SEPARATOR>>>>

\* The calls of writer.write that send_over_stream_async makes for a frame:
\* one, with the whole of the data.
WriteCalls(frame, private_key) == <<send_over_stream_async(frame, private_key)>>

\* request_consumer, or the response_consumer of a connection, from the
\* item it got to the await in send_over_stream_async: the frame is built
\* and written on the writer the coroutine was started with, and the
\* coroutine waits in drain().
ConsumerWrite(consumer, payload, request_id) ==
    LET
        frame == create_middleman_protocol_message("GOLEM_MESSAGE", payload, request_id)
        \* signing_service_writer for request_consumer, the connection's
        \* writer for its response_consumer
        writer == IF consumer = "request_consumer" THEN "signing_service_writer" ELSE consumer
    IN
    /\ codec.pc = "streams"
    /\ consumer \notin codec.draining
    /\ codec.sent < MaxMessages
    /\ codec' = [codec EXCEPT
                   !.written[writer] = @ \o WriteCalls(frame, "CONCENT_PRIVATE_KEY"),
                   !.frames[writer] = Append(@, frame),
                   !.draining = @ \cup {consumer},
                   !.sent = @ + 1]

\* drain() returns and the coroutine goes on to its next item.
ConsumerDrain(consumer) ==
    /\ codec.pc = "streams"
    /\ consumer \in codec.draining
    /\ codec' = [codec EXCEPT !.draining = @ \ {consumer}]

\* ------------------------------------------------------------ store_subtask
\* Two TaskToCompute messages that differ, as the factories make them.
TaskToComputes == {"task_to_compute", "different_task_to_compute"}

\* No message where one is optional.
NoMessage == [type |-> "none"]

RejectReportComputedTaskEmpty ==
    [type |-> "RejectReportComputedTask",
     reason |-> "none",
     attached_task_to_compute |-> {},
     task_failure |-> {},
     cannot_compute_task |-> {}]

\* The task_to_compute messages nested in a message: a set of one, or the
\* empty set when the message carries none.
NestedTaskToCompute(msg) ==
    CASE msg.type = "ReportComputedTask" -> {msg.task_to_compute}
      [] msg.type \in {"AckReportComputedTask", "ForceGetTaskResult", "SubtaskResultsRejected"}
            -> {msg.report_computed_task.task_to_compute}
      [] msg.type = "RejectReportComputedTask" ->
            CASE msg.reason = "SubtaskTimeLimitExceeded" -> msg.attached_task_to_compute
              [] msg.reason = "GotMessageTaskFailure" ->
                    {f.task_to_compute : f \in msg.task_failure}
              [] msg.reason = "GotMessageCannotComputeTask" ->
                    {f.task_to_compute : f \in msg.cannot_compute_task}
              [] OTHER -> {}

\* The messages of a Subtask other than its task_to_compute.
MessagesOf(subtask) ==
    {subtask.report_computed_task,
     subtask.ack_report_computed_task,
     subtask.reject_report_computed_task,
     subtask.force_get_task_result,
     subtask.subtask_results_rejected} \ {NoMessage}

\* A variant that does not look into reject_report_computed_task; C26 tells
\* it from the definition below.
SubtaskIsValid_NoReject(subtask) ==
    \A msg \in MessagesOf(subtask) \ {subtask.reject_report_computed_task} :
       NestedTaskToCompute(msg) = {subtask.task_to_compute}

\* Subtask.clean: every message of the subtask carries a task_to_compute
\* that equals the subtask's own.
SubtaskIsValid(subtask) ==
    \A msg \in MessagesOf(subtask) : NestedTaskToCompute(msg) = {subtask.task_to_compute}

\* Nothing being stored.
StoreRest == [pc |-> "rest"]

\* store_subtask: the Subtask is built from the arguments, validated
\* (full_clean) and saved; a ValidationError leaves the table as it was.
StoreSubtask ==
    /\ subtask_store.pc = "call"
    /\ LET subtask == subtask_store.arguments
       IN IF SubtaskIsValid(subtask)
          THEN subtask_store' = [subtask_store EXCEPT
                                    !.pc = "stored",
                                    !.subtasks = @ \cup {subtask}]
          ELSE subtask_store' = [subtask_store EXCEPT
                                    !.pc = "failed",
                                    !.exception = "ValidationError"]

\* Subtask.objects.get(subtask_id=...).delete()
DeleteSubtask ==
    /\ subtask_store.pc = "stored"
    /\ subtask_store' = [subtask_store EXCEPT !.pc = "deleted", !.subtasks = {}]

StoreNext ==
    \/ StoreSubtask /\ UNCHANGED outside_store
    \/ DeleteSubtask /\ UNCHANGED outside_store

\* -------------------------------------------------- forced acceptance (core)
\* The clients that sign requests: the provider and the requestor of the
\* task, and clients with other keys.
ProviderKey == "PROVIDER_PUBLIC_KEY"
RequestorKey == "REQUESTOR_PUBLIC_KEY"
DifferentProviderKey == "DIFFERENT_PROVIDER_PUBLIC_KEY"
DifferentRequestorKey == "DIFFERENT_REQUESTOR_PUBLIC_KEY"
ClientKeys == {ProviderKey, RequestorKey, DifferentProviderKey, DifferentRequestorKey}

\* Subtask.SubtaskState, as far as forced acceptance goes; NoSubtaskState
\* stands for a subtask that Concent does not know yet.
NoSubtaskState == "none"
FORCING_ACCEPTANCE == "FORCING_ACCEPTANCE"
ACCEPTED == "ACCEPTED"
REJECTED == "REJECTED"

\* The call of bankster.claim_deposit that the handler of ForceSubtaskResults
\* makes for a task.
ClaimDepositCall(price) ==
    [function |-> "claim_deposit",
     subtask_id |-> "subtask_1",
     concent_use_case |-> FORCED_ACCEPTANCE,
     requestor_ethereum_address |-> RequestorAddress,
     provider_ethereum_address |-> ProviderAddress,
     subtask_cost |-> price,
     requestor_public_key |-> RequestorKey,
     provider_public_key |-> ProviderKey]

\* The call of bankster.finalize_payment for the claim of the subtask.
FinalizePaymentCall == [function |-> "finalize_payment", subtask_id |-> "subtask_1"]

\* What a request ended with; claim is what claim_deposit returned to it,
\* when it was called.
Handled(request, client, response, calls, claim) ==
    [request |-> request,
     client |-> client,
     response |-> response,
     calls |-> calls,
     claim |-> claim,
     subtask_state_before |-> arbitration.subtask_state,
     stored_messages_before |-> arbitration.stored_messages,
     late |-> arbitration.now > arbitration.next_deadline]

NothingHandled == [request |-> "none"]

\* No request at all.
ArbitrationRest == [pc |-> "rest"]

\* The clock moves on.
Tick ==
    /\ arbitration.pc = "run"
    /\ arbitration.now < MaxTime
    /\ arbitration' = [arbitration EXCEPT !.now = @ + 1, !.handled = NothingHandled]

\* A variant that asks Bankster for a claim before it looks for the subtask;
\* C28 tells it from the definition below.
ForceSubtaskResultsCalls_ClaimFirst(state, price) == <<ClaimDepositCall(price)>>

\* The Bankster calls of the handler of ForceSubtaskResults: claim_deposit,
\* for a subtask that Concent does not know yet.
ForceSubtaskResultsCalls(state, price) ==
    IF state = NoSubtaskState THEN <<ClaimDepositCall(price)>> ELSE << >>

\* A variant that takes the subtask into FORCING_ACCEPTANCE whatever
\* claim_deposit returns; C27 tells it from the definition below.
ClaimAdmits_Always(claim_against_requestor) == TRUE

\* claim_deposit returned a claim, not (None, None).
ClaimAdmits(claim_against_requestor) == claim_against_requestor

\* A variant in which a SubtaskResultsRejected also counts as acceptance;
\* C29 tells it from the definition below.
StateAfterResponse_Accepts(answer) == ACCEPTED

\* The state a ForceSubtaskResultsResponse takes the subtask to.
StateAfterResponse(answer) ==
    IF answer = "SubtaskResultsAccepted" THEN ACCEPTED ELSE REJECTED

\* send ForceSubtaskResults.  Messages signed with other keys than the
\* task's are refused with HTTP 400; a subtask that Concent knows already is
\* answered with ServiceRefused (DuplicateRequest); otherwise claim_deposit
\* is called, and the subtask is stored in FORCING_ACCEPTANCE if it returns
\* a claim and refused for a too small deposit if it does not.
SendForceSubtaskResults(client, claim_against_requestor) ==
    LET
        \* The time Concent gives the requestor to answer, in ticks of the clock.
        FORCE_ACCEPTANCE_TIME == 1
    IN
    /\ arbitration.pc = "run"
    /\ client \in {ProviderKey, DifferentProviderKey}
    /\ LET calls == ForceSubtaskResultsCalls(arbitration.subtask_state, arbitration.price)
       IN IF client # ProviderKey
          THEN arbitration' = [arbitration EXCEPT
                  !.handled = Handled("ForceSubtaskResults", client, "HTTP 400", << >>, FALSE)]
          ELSE IF arbitration.subtask_state # NoSubtaskState
          THEN arbitration' = [arbitration EXCEPT
                  !.handled = Handled("ForceSubtaskResults", client,
                                      "ServiceRefused DuplicateRequest", calls, FALSE)]
          ELSE IF ClaimAdmits(claim_against_requestor)
          THEN arbitration' = [arbitration EXCEPT
                  !.subtask_state = FORCING_ACCEPTANCE,
                  !.next_deadline = arbitration.now + FORCE_ACCEPTANCE_TIME,
                  !.stored_messages = {"TaskToCompute", "WantToComputeTask",
                                       "ReportComputedTask", "AckReportComputedTask"},
                  !.pending_responses = {<<RequestorKey, "ForceSubtaskResults">>},
                  !.handled = Handled("ForceSubtaskResults", client, "HTTP 202", calls,
                                      claim_against_requestor)]
          ELSE arbitration' = [arbitration EXCEPT
                  !.handled = Handled("ForceSubtaskResults", client,
                                      "ServiceRefused TooSmallRequestorDeposit", calls,
                                      claim_against_requestor)]

\* send ForceSubtaskResultsResponse with a SubtaskResultsAccepted or a
\* SubtaskResultsRejected.  Messages signed with other keys are refused with
\* HTTP 400, and so is an answer for a subtask that is not in
\* FORCING_ACCEPTANCE or whose deadline has passed; otherwise the subtask
\* becomes ACCEPTED or REJECTED, the answer is stored and the provider is
\* owed the response.
SendForceSubtaskResultsResponse(client, answer) ==
    /\ arbitration.pc = "run"
    /\ client \in {RequestorKey, DifferentRequestorKey}
    /\ IF \/ client # RequestorKey
          \/ arbitration.subtask_state # FORCING_ACCEPTANCE
          \/ arbitration.now > arbitration.next_deadline
       THEN arbitration' = [arbitration EXCEPT
               !.handled = Handled("ForceSubtaskResultsResponse", client, "HTTP 400",
                                   << >>, FALSE)]
       ELSE arbitration' = [arbitration EXCEPT
               !.subtask_state = StateAfterResponse(answer),
               !.stored_messages = @ \cup {answer},
               !.pending_responses = {<<ProviderKey, "ForceSubtaskResultsResponse">>},
               !.handled = Handled("ForceSubtaskResultsResponse", client, "HTTP 202",
                                   IF answer = "SubtaskResultsAccepted"
                                   THEN <<FinalizePaymentCall>> ELSE << >>,
                                   FALSE)]

\* update_timed_out_subtasks: the deadline of a subtask in FORCING_ACCEPTANCE
\* has passed without an answer of the requestor; the subtask becomes
\* ACCEPTED, both clients are owed a SubtaskResultsSettled and the claim is
\* paid out.
UpdateTimedOutSubtasks ==
    /\ arbitration.pc = "run"
    /\ arbitration.subtask_state = FORCING_ACCEPTANCE
    /\ arbitration.now > arbitration.next_deadline
    /\ arbitration' = [arbitration EXCEPT
          !.subtask_state = ACCEPTED,
          !.pending_responses = {<<ProviderKey, "SubtaskResultsSettled">>,
                                 <<RequestorKey, "SubtaskResultsSettled">>},
          !.handled = Handled("update_timed_out_subtasks", "none", "none",
                              <<FinalizePaymentCall>>, FALSE)]

\* receive: the client gets a response Concent owes it, or HTTP 204.
Receive(client) ==
    /\ arbitration.pc = "run"
    /\ ~(arbitration.subtask_state = FORCING_ACCEPTANCE
         /\ arbitration.now > arbitration.next_deadline)
    /\ LET owed == {p \in arbitration.pending_responses : p[1] = client}
       IN IF owed = {}
          THEN arbitration' = [arbitration EXCEPT
                  !.handled = Handled("receive", client, "HTTP 204", << >>, FALSE)]
          ELSE \E p \in owed :
                  arbitration' = [arbitration EXCEPT
                     !.pending_responses = @ \ {p},
                     !.handled = Handled("receive", client, p[2], << >>, FALSE)]

ArbitrationNext ==
    \/ Tick /\ UNCHANGED outside_arbitration
    \/ \E client \in ClientKeys, claim_against_requestor \in BOOLEAN :
          SendForceSubtaskResults(client, claim_against_requestor)
             /\ UNCHANGED outside_arbitration
    \/ \E client \in ClientKeys,
          answer \in {"SubtaskResultsAccepted", "SubtaskResultsRejected"} :
          SendForceSubtaskResultsResponse(client, answer) /\ UNCHANGED outside_arbitration
    \/ UpdateTimedOutSubtasks /\ UNCHANGED outside_arbitration
    \/ \E client \in ClientKeys : Receive(client) /\ UNCHANGED outside_arbitration

\* ------------------------------------------------------------ specification
\* Bankster before any call, the relay at rest.
BanksterStart ==
    /\ clients = {}
    /\ accounts = {}
    /\ claims = {}
    /\ subtasks = {[subtask_id |-> "subtask_1",
                    requestor |-> RequestorAddress,
                    provider |-> ProviderAddress]}
    /\ \E r \in DepositValues(RequestorAddress), p \in DepositValues(ProviderAddress) :
          deposit = [a \in ClientAddresses |-> IF a = RequestorAddress THEN r ELSE p]
    /\ lock = [a \in ClientAddresses |-> {}]
    /\ callbacks = {}
    /\ next_pk = 1
    /\ next_tx = 1
    /\ deposit_changes = 0
    /\ w = [wk \in Workers |-> IdleWorker]
    /\ last = NoEvent

\* Bankster and the relay with their deposits at their lowest values.
BanksterAndRelayAtRest ==
    /\ BanksterStart
    /\ \A a \in ClientAddresses : deposit[a] = MinOf(DepositValues(a))
    /\ RelayStart

Init ==
    /\ BanksterStart
    /\ RelayStart
    /\ codec = CodecRest
    /\ subtask_store = StoreRest
    /\ arbitration = ArbitrationRest

Next ==
    \/ \E wk \in Workers, s \in SubtaskIds,
          uc \in {FORCED_ACCEPTANCE, ADDITIONAL_VERIFICATION}, cost \in SubtaskCosts :
            ClaimDepositBegin(wk, s, uc, cost) /\ UNCHANGED outside_bankster
    \/ \E wk \in Workers : ClaimDepositSumRequestor(wk) /\ UNCHANGED outside_bankster
    \/ \E wk \in Workers : ClaimDepositSumProvider(wk) /\ UNCHANGED outside_bankster
    \/ \E wk \in Workers : ClaimDepositCommit(wk) /\ UNCHANGED outside_bankster
    \/ \E wk \in Workers : \E c \in claims :
          \* the views finalize the claims of claim_deposit only
          /\ c.concent_use_case # FORCED_PAYMENT
          /\ FinalizePaymentBegin(wk, c)
          /\ UNCHANGED outside_bankster
    \/ \E wk \in Workers : FinalizePaymentLock(wk) /\ UNCHANGED outside_bankster
    \/ \E wk \in Workers : FinalizePaymentPay(wk) /\ UNCHANGED outside_bankster
    \/ \E wk \in Workers : \E c \in claims : DiscardClaim(wk, c) /\ UNCHANGED outside_bankster
    \/ \E cb \in callbacks : ConfirmTransaction(cb) /\ UNCHANGED outside_bankster
    \/ \E wk \in SettleWorkers, acceptances \in AcceptanceLists :
            SettleOverdueAcceptancesBegin(wk, acceptances) /\ UNCHANGED outside_bankster
    \/ \E wk \in Workers : SettleOverdueAcceptancesLock(wk) /\ UNCHANGED outside_bankster
    \/ \E wk \in Workers : SettleOverdueAcceptancesPay(wk) /\ UNCHANGED outside_bankster
    \/ \E a \in MovingAddresses : \E v \in DepositValues(a) : DepositChange(a, v) /\ UNCHANGED outside_bankster

Spec == Init /\ [][Next]_vars

\* The relay alone: the coroutines of queue_operations, the front ends and
\* the Signing Service.
RelayNext ==
    \/ \E c \in Connections : OpenConnection(c) /\ UNCHANGED outside_relay
    \/ \E c \in Connections : CloseConnection(c) /\ UNCHANGED outside_relay
    \/ \E c \in Connections : RequestProducerRequest(c) /\ UNCHANGED outside_relay
    \/ \E c \in Connections, e \in ERRORS_THAT_CAUSE_CURRENT_ITERATION_ENDS :
          RequestProducerError(c, e) /\ UNCHANGED outside_relay
    \/ RequestConsumer /\ UNCHANGED outside_relay
    \/ \E f \in signing_service_pending : SigningServiceAnswer(f) /\ UNCHANGED outside_relay
    \/ ResponseProducerReceive /\ UNCHANGED outside_relay
    \/ \E e \in ERRORS_THAT_CAUSE_CURRENT_ITERATION_ENDS :
          ResponseProducerInvalidFrame(e) /\ UNCHANGED outside_relay
    \/ ResponseProducerPut /\ UNCHANGED outside_relay
    \/ SigningServiceClose /\ UNCHANGED outside_relay
    \/ \E c \in Connections : ResponseConsumer(c) /\ UNCHANGED outside_relay

\* Bankster stays as it starts; its deposits are at their lowest values.
RelayInit == Init /\ \A a \in ClientAddresses : deposit[a] = MinOf(DepositValues(a))

RelaySpec == RelayInit /\ [][RelayNext]_vars

\* The relay with a Signing Service that may send an answer twice.
RepeatSpec ==
    RelayInit /\ [][\/ RelayNext
                    \/ \E f \in signing_service_pending :
                          SigningServiceAnswerTwice(f) /\ UNCHANGED outside_relay]_vars

\* The codec alone: Bankster and the relay stay as they start.
CodecInit ==
    LET
        \* A frame and the key of its sender.
        CodecStart ==
            LET
                \* The key pairs of Concent and of the Signing Service.
                PrivateKeys == {"CONCENT_PRIVATE_KEY", "SIGNING_SERVICE_PRIVATE_KEY"}
                Frames ==
                    LET
                        \* The frames that are sent, payloads of up to MaxPayloadLen bytes.
                        PayloadsOfLen(n) == [1 .. n -> Bytes]
                    IN
                    {create_middleman_protocol_message(t, payload, request_id) :
                        t \in {"GOLEM_MESSAGE", "ERROR"},
                        payload \in UNION {PayloadsOfLen(n) : n \in 0 .. MaxPayloadLen},
                        request_id \in {0, ESCAPE_CHARACTER, FRAME_SEPARATOR}}
            IN
            \E frame \in Frames, private_key \in PrivateKeys :
               codec = [pc |-> "send", frame |-> frame, private_key |-> private_key]
    IN
    /\ BanksterAndRelayAtRest
    /\ CodecStart
    /\ subtask_store = StoreRest
    /\ arbitration = ArbitrationRest

CodecSpec == CodecInit /\ [][CodecNext]_vars

\* The consumers writing frames on their streams: request_consumer on the
\* stream to the Signing Service, one response_consumer on the stream of each
\* connection; the rest stays as it starts.
StreamInit ==
    /\ BanksterAndRelayAtRest
    /\ codec = [pc |-> "streams",
                written |-> [writer \in {"signing_service_writer"} \cup Connections |-> << >>],
                frames |-> [writer \in {"signing_service_writer"} \cup Connections |-> << >>],
                draining |-> {},
                sent |-> 0]
    /\ subtask_store = StoreRest
    /\ arbitration = ArbitrationRest

StreamSpec ==
    StreamInit /\
    [][\/ \E consumer \in {"request_consumer"} \cup Connections,
             payload \in {<< >>, <<FRAME_SEPARATOR>>, <<ESCAPE_CHARACTER, FRAME_SEPARATOR>>},
             request_id \in {0, ESCAPE_CHARACTER, FRAME_SEPARATOR} :
              ConsumerWrite(consumer, payload, request_id) /\ UNCHANGED outside_codec
       \/ \E consumer \in {"request_consumer"} \cup Connections :
              ConsumerDrain(consumer) /\ UNCHANGED outside_codec]_vars

\* store_subtask alone.
StoreInit ==
    LET
        \* The argument lists of store_subtask.
        ReportComputedTasks ==
            LET
                ReportComputedTask(task_to_compute) ==
                    [type |-> "ReportComputedTask", task_to_compute |-> task_to_compute]
            IN
            {ReportComputedTask(t) : t \in TaskToComputes}
        \* The Subtask table is empty and store_subtask is about to be called.
        StoreStart ==
            LET
                StoreSubtaskArguments ==
                    LET
                        AckReportComputedTask(report_computed_task) ==
                            [type |-> "AckReportComputedTask", report_computed_task |-> report_computed_task]
                        ForceGetTaskResult(report_computed_task) ==
                            [type |-> "ForceGetTaskResult", report_computed_task |-> report_computed_task]
                        SubtaskResultsRejected(report_computed_task) ==
                            [type |-> "SubtaskResultsRejected", report_computed_task |-> report_computed_task]
                        RejectReportComputedTasks ==
                            LET
                                \* RejectReportComputedTask: its reason says which of its fields carries the
                                \* task_to_compute; a message made without arguments has neither.
                                RejectReportComputedTask(reason, task_to_compute) ==
                                    [type |-> "RejectReportComputedTask",
                                     reason |-> reason,
                                     attached_task_to_compute |->
                                        IF reason = "SubtaskTimeLimitExceeded" THEN {task_to_compute} ELSE {},
                                     task_failure |->
                                        IF reason = "GotMessageTaskFailure" THEN {[task_to_compute |-> task_to_compute]} ELSE {},
                                     cannot_compute_task |->
                                        IF reason = "GotMessageCannotComputeTask"
                                        THEN {[task_to_compute |-> task_to_compute]} ELSE {}]
                            IN
                            {RejectReportComputedTask(reason, t) :
                                reason \in {"SubtaskTimeLimitExceeded", "GotMessageTaskFailure",
                                            "GotMessageCannotComputeTask"},
                                t \in TaskToComputes} \cup {RejectReportComputedTaskEmpty}
                    IN
                    [task_to_compute : TaskToComputes,
                     report_computed_task : ReportComputedTasks,
                     ack_report_computed_task :
                        {NoMessage} \cup {AckReportComputedTask(r) : r \in ReportComputedTasks},
                     reject_report_computed_task : {NoMessage} \cup RejectReportComputedTasks,
                     force_get_task_result :
                        {NoMessage} \cup {ForceGetTaskResult(r) : r \in ReportComputedTasks},
                     subtask_results_rejected :
                        {NoMessage} \cup {SubtaskResultsRejected(r) : r \in ReportComputedTasks}]
            IN
            \E arguments \in StoreSubtaskArguments :
               subtask_store = [pc |-> "call", arguments |-> arguments, subtasks |-> {},
                                exception |-> "none"]
    IN
    /\ BanksterAndRelayAtRest
    /\ codec = CodecRest
    /\ StoreStart
    /\ arbitration = ArbitrationRest

StoreSpec == StoreInit /\ [][StoreNext]_vars

\* Forced acceptance alone.
ArbitrationInit ==
    LET
        \* Concent knows no subtask; the task has a price.
        ArbitrationStart ==
            \E price \in 1 .. MaxCost :
               arbitration = [pc |-> "run",
                              price |-> price,
                              now |-> 0,
                              subtask_state |-> NoSubtaskState,
                              next_deadline |-> 0,
                              stored_messages |-> {},
                              pending_responses |-> {},
                              handled |-> NothingHandled]
    IN
    /\ BanksterAndRelayAtRest
    /\ codec = CodecRest
    /\ subtask_store = StoreRest
    /\ ArbitrationStart

ArbitrationSpec == ArbitrationInit /\ [][ArbitrationNext]_vars

\* finalize_payment and discard_claim alone, called with a claim object of
\* any use case on a store in which the Subtask or the payer's DepositAccount
\* may be missing; the relay and the rest stay as they start.
FinalizeInit ==
    LET
        \* The claim the caller holds; its tx_hash is None.
        DepositClaims ==
            {[id |-> 1,
              subtask_id |-> subtask_id,
              payee_ethereum_address |-> payee,
              amount |-> amount,
              concent_use_case |-> concent_use_case,
              payer_deposit_account |-> payer,
              tx_hash |-> NoHash,
              closure_time |-> {}] :
                subtask_id \in SubtaskIds,
                payee \in {ProviderAddress, ConcentAddress},
                amount \in SubtaskCosts,
                concent_use_case \in {FORCED_ACCEPTANCE, ADDITIONAL_VERIFICATION,
                                      FORCED_PAYMENT, "FORCED_TASK_RESULT"},
                payer \in ClientAddresses}
        \* The Subtask table: empty, or the subtask with its two parties.
        SubtaskTables ==
            {{}} \cup {{[subtask_id |-> subtask_id, requestor |-> requestor, provider |-> provider]} :
                          subtask_id \in SubtaskIds,
                          requestor \in ClientAddresses \cup {ConcentAddress},
                          provider \in ClientAddresses \cup {ConcentAddress}}
        \* The DepositAccount table: the accounts of both clients, or none.
        AccountTables ==
            {{}, {[client |-> RequestorPublicKey, ethereum_address |-> RequestorAddress],
                  [client |-> ProviderPublicKey, ethereum_address |-> ProviderAddress]}}
    IN
    /\ \E c \in DepositClaims :
          /\ c.payee_ethereum_address # c.payer_deposit_account
          /\ claims = {c}
    /\ subtasks \in SubtaskTables
    /\ accounts \in AccountTables
    /\ clients = {a.client : a \in accounts}
    /\ \E r \in DepositValues(RequestorAddress), p \in DepositValues(ProviderAddress) :
          deposit = [a \in ClientAddresses |-> IF a = RequestorAddress THEN r ELSE p]
    /\ lock = [a \in ClientAddresses |-> {}]
    /\ callbacks = {}
    /\ next_pk = 2
    /\ next_tx = 1
    /\ deposit_changes = 0
    /\ w = [wk \in Workers |-> IdleWorker]
    /\ last = NoEvent
    /\ RelayStart
    /\ codec = CodecRest
    /\ subtask_store = StoreRest
    /\ arbitration = ArbitrationRest

FinalizeSpec ==
    FinalizeInit /\
    [][\/ \E wk \in Workers : \E c \in claims : FinalizePaymentBegin(wk, c) /\ UNCHANGED outside_bankster
       \/ \E wk \in Workers : FinalizePaymentLock(wk) /\ UNCHANGED outside_bankster
       \/ \E wk \in Workers : FinalizePaymentPay(wk) /\ UNCHANGED outside_bankster
       \/ \E wk \in Workers : \E c \in claims : DiscardClaim(wk, c) /\ UNCHANGED outside_bankster
       \/ \E cb \in callbacks : ConfirmTransaction(cb) /\ UNCHANGED outside_bankster]_vars

\* ------------------------------------------------------------------ claims
\* The rows of a store that carry the given primary key.
RowsWithId(rows, pk) == {c \in rows : c.id = pk}

\* C1: in every quiescent state the amounts of the claims against a
\* DepositAccount sum to no more than the deposit the oracle reports for its
\* address (stated for the runs in which the on-chain deposits have not
\* moved, so that only Bankster's own calls can break it).
C1_ClaimsWithinDeposit ==
    LET
        \* No call is under way.
        Quiescent == \A wk \in Workers : w[wk].pc = "idle"
    IN
    (Quiescent /\ deposit_changes = 0) =>
        \A a \in ClientAddresses : SumAmounts(ClaimsOf(a)) <= deposit[a]

\* A call of claim_deposit that has summed the requestor's claims and has
\* not yet committed its rows.
InSumAndInsert(wk) == w[wk].pc \in {"cd_sum_provider", "cd_commit"}

\* C2: two calls of claim_deposit against the same requestor account are
\* serialized: the sum-and-insert step of one never overlaps that of the
\* other, and a call that commits a claim found the requestor's deposit to
\* exceed the claims stored at its commit, as in a serial order.
C2_ClaimDepositSerialized ==
    LET
        \* The rows of a store whose payer is the given address.
        RowsOf(rows, address) == {c \in rows : c.payer_deposit_account = address}
    IN
    /\ ~(InSumAndInsert("w1") /\ InSumAndInsert("w2"))
    /\ (last.op = "claim_deposit" /\ last.exc = "none" /\ last.ret # <<{}, {}>>) =>
           last.requestor_deposit > SumAmounts(RowsOf(last.claims_before, RequestorAddress))

\* C3: a tx_hash, once written to a stored claim, is not changed by any
\* later step.
C3_TxHashNeverRewritten ==
    [][\A c \in claims : c.tx_hash # NoHash =>
          \A d \in claims' : d.id = c.id => d.tx_hash = c.tx_hash]_vars

\* C4: claim_deposit returns (null, null) and leaves the store as it was
\* whenever the requestor's deposit is at most the sum of the existing claims
\* against the requestor.
C4_InsufficientRequestorDeposit ==
    (last.op = "claim_deposit" /\ last.requestor_deposit <= last.sum_requestor) =>
        /\ last.ret = <<{}, {}>>
        /\ last.exc = "none"
        /\ claims = last.claims_before

C4_Witness ==
    /\ last.op = "claim_deposit"
    /\ last.sum_requestor > 0
    /\ last.requestor_deposit = last.sum_requestor
    /\ last.ret = <<{}, {}>>

\* C5: when the requestor's deposit exceeds the sum of the existing claims,
\* claim_deposit(FORCED_ACCEPTANCE) inserts exactly one claim (payer the
\* requestor's account, payee the provider, amount subtask_cost, the given
\* use case and subtask_id, tx_hash null) and returns it with a null second
\* element.
C5_ForcedAcceptanceClaim ==
    (/\ last.op = "claim_deposit"
     /\ last.concent_use_case = FORCED_ACCEPTANCE
     /\ last.requestor_deposit > last.sum_requestor) =>
        /\ last.exc = "none"
        /\ \E c \in claims :
              /\ last.ret = <<{c}, {}>>
              /\ RowsWithId(last.claims_before, c.id) = {}
              /\ claims = last.claims_before \cup {c}
              /\ c.payer_deposit_account = RequestorAddress
              /\ c.payee_ethereum_address = ProviderAddress
              /\ c.amount = last.subtask_cost
              /\ c.concent_use_case = FORCED_ACCEPTANCE
              /\ c.subtask_id = last.subtask_id
              /\ c.tx_hash = NoHash

C5_Witness ==
    /\ last.op = "claim_deposit"
    /\ last.concent_use_case = FORCED_ACCEPTANCE
    /\ last.sum_requestor > 0
    /\ last.requestor_deposit > last.sum_requestor
    /\ last.subtask_cost = MaxCost
    /\ Cardinality(claims) = Cardinality(last.claims_before) + 1

C7_FinalizeClamps ==
    (/\ last.op = "finalize_payment"
     /\ last.available_funds_without_claims > 0
     /\ last.exc = "none") =>
        LET expected == Min(last.deposit_claim.amount, last.available_funds_without_claims)
        IN /\ Len(last.calls) = 1
           /\ last.calls[1].value = expected
           /\ \E c \in claims : c.id = last.deposit_claim.id /\ c.amount = expected
           /\ expected <= last.deposit_claim.amount

C7_Witness ==
    /\ last.op = "finalize_payment"
    /\ last.available_funds_without_claims > 0
    /\ last.available_funds_without_claims < last.deposit_claim.amount
    /\ Len(last.calls) = 1

\* C8: a finalize_payment that finds available funds <= 0 deletes the claim,
\* returns null, calls no oracle payment, writes no tx_hash and registers no
\* callback.
C8_FinalizeNothingAvailable ==
    (last.op = "finalize_payment" /\ last.available_funds_without_claims <= 0) =>
        /\ claims = {c \in last.claims_before : c.id # last.deposit_claim.id}
        /\ last.ret = NoHash
        /\ last.exc = "none"
        /\ last.calls = << >>
        /\ callbacks = last.callbacks_before

C8_Witness ==
    /\ last.op = "finalize_payment"
    /\ last.available_funds_without_claims <= 0
    /\ last.deposit_claim \in last.claims_before
    /\ last.deposit_claim \notin claims

\* C9: a finalize_payment that returns a hash made exactly one oracle payment
\* call: force_subtask_payment(requestor, provider, amount, subtask_id) for
\* FORCED_ACCEPTANCE and for ADDITIONAL_VERIFICATION when the payer is the
\* subtask's requestor, cover_additional_verification_cost(provider, amount,
\* subtask_id) for ADDITIONAL_VERIFICATION when the payer is the subtask's
\* provider.
C9_PaymentDispatch ==
    (last.op = "finalize_payment" /\ last.ret # NoHash) =>
        LET c == last.deposit_claim
            payer == c.payer_deposit_account
            amount == Min(c.amount, last.available_funds_without_claims)
            by_requestor == \E s \in subtasks : s.subtask_id = c.subtask_id /\ s.requestor = payer
            by_provider == \E s \in subtasks : s.subtask_id = c.subtask_id /\ s.provider = payer
        IN /\ Len(last.calls) = 1
           /\ (c.concent_use_case = FORCED_ACCEPTANCE
                  \/ (c.concent_use_case = ADDITIONAL_VERIFICATION /\ by_requestor)) =>
                 last.calls[1] = [function |-> "force_subtask_payment",
                                  requestor_eth_address |-> payer,
                                  provider_eth_address |-> c.payee_ethereum_address,
                                  value |-> amount,
                                  subtask_id |-> c.subtask_id]
           /\ (c.concent_use_case = ADDITIONAL_VERIFICATION /\ ~by_requestor /\ by_provider) =>
                 last.calls[1] = [function |-> "cover_additional_verification_cost",
                                  provider_eth_address |-> payer,
                                  value |-> amount,
                                  subtask_id |-> c.subtask_id]

C9_Witness ==
    /\ last.op = "finalize_payment"
    /\ last.ret # NoHash
    /\ last.deposit_claim.concent_use_case = ADDITIONAL_VERIFICATION
    /\ last.calls[1].function = "cover_additional_verification_cost"

\* A call under way takes its next step, and the oracle confirms the
\* transaction of every callback it was given.
Fairness ==
    /\ \A wk \in Workers :
          WF_vars(/\ \/ ClaimDepositSumRequestor(wk) \/ ClaimDepositSumProvider(wk)
                     \/ ClaimDepositCommit(wk)
                     \/ FinalizePaymentLock(wk) \/ FinalizePaymentPay(wk)
                     \/ SettleOverdueAcceptancesLock(wk) \/ SettleOverdueAcceptancesPay(wk)
                  /\ UNCHANGED outside_bankster)
    /\ \A pk \in 1..MaxClaims :
          WF_vars(/\ \E cb \in callbacks : cb.deposit_claim.id = pk /\ ConfirmTransaction(cb)
                  /\ UNCHANGED outside_bankster)

FairSpec == Spec /\ Fairness

\* C10: a finalize_payment that returns a hash has stored it on the claim and
\* registered a confirmation callback for it; and when the oracle confirms
\* the transactions it was given, every claim with a registered callback is
\* eventually the subject of a discard_claim run by the oracle that returns
\* true and leaves no row of that claim in the store.
C10_CallbackDiscards ==
    /\ [](  (last.op = "finalize_payment" /\ last.ret # NoHash) =>
               /\ \E c \in claims : c.id = last.deposit_claim.id /\ c.tx_hash = last.ret
               /\ \E cb \in callbacks :
                     cb.tx_hash = last.ret /\ cb.deposit_claim.id = last.deposit_claim.id)
    /\ \A pk \in 1..MaxClaims :
          (\E cb \in callbacks : cb.deposit_claim.id = pk)
              ~> (/\ last.op = "discard_claim"
                  /\ last.caller = "oracle"
                  /\ last.deposit_claim.id = pk
                  /\ last.ret = TRUE
                  /\ RowsWithId(claims, pk) = {})

C10_Witness ==
    /\ last.op = "discard_claim"
    /\ last.caller = "oracle"
    /\ RowsWithId(last.claims_before, last.deposit_claim.id) # {}
    /\ RowsWithId(claims, last.deposit_claim.id) = {}

\* C11: discard_claim on a claim without tx_hash leaves the store as it was
\* and returns false; on a claim with a tx_hash it deletes the row of that
\* claim, and no other, and returns true; either way the payer's
\* DepositAccount row stays.
C11_DiscardClaim ==
    (last.op = "discard_claim") =>
        /\ IF last.deposit_claim.tx_hash = NoHash
           THEN /\ last.ret = FALSE
                /\ claims = last.claims_before
           ELSE /\ last.ret = TRUE
                /\ claims = {c \in last.claims_before : c.id # last.deposit_claim.id}
        /\ \E a \in accounts : a.ethereum_address = last.deposit_claim.payer_deposit_account

C11_Witness ==
    /\ last.op = "discard_claim"
    /\ last.deposit_claim.tx_hash = NoHash
    /\ last.ret = FALSE
    /\ RowsWithId(claims, last.deposit_claim.id) # {}
    /\ Cardinality(claims) = 2

\* C12 as stated: a step removes a stored claim only if it is a discard_claim
\* on that claim and the stored claim has a tx_hash; a stored claim without
\* tx_hash is never removed.
C12_Original ==
    [][\A c \in claims :
          RowsWithId(claims', c.id) = {} =>
              /\ c.tx_hash # NoHash
              /\ last'.op = "discard_claim"
              /\ last'.deposit_claim.id = c.id]_vars

\* C12, amended: a step removes a stored claim only if it is a discard_claim
\* on that claim called with a claim object that has a tx_hash, or the step
\* of a finalize_payment on that claim that finds no funds available (which
\* removes a committed claim whose tx_hash is null).
C12_DeletedOnlyBy ==
    [][\A c \in claims :
          RowsWithId(claims', c.id) = {} =>
              \/ /\ last'.op = "discard_claim"
                 /\ last'.deposit_claim.id = c.id
                 /\ last'.deposit_claim.tx_hash # NoHash
              \/ /\ last'.op = "finalize_payment"
                 /\ last'.deposit_claim.id = c.id
                 /\ last'.available_funds_without_claims <= 0]_vars

C12_Witness ==
    /\ last.op = "finalize_payment"
    /\ last.available_funds_without_claims <= 0
    /\ last.deposit_claim.tx_hash = NoHash
    /\ last.deposit_claim \in last.claims_before
    /\ Cardinality(last.claims_before) = 2
    /\ Cardinality(claims) = 1

\* C13: a settle_overdue_acceptances call that finds the requestor's deposit
\* above the sum of the claims and a positive payable amount makes one force
\* payment call with (requestor, provider, payable, T2), and inserts and
\* returns exactly one FORCED_PAYMENT claim with no subtask id, the payable
\* amount, a populated tx_hash and closure_time T2.
C13_SettlePaysAndRecords ==
    LET
        \* The payment timestamp T2 of a settle call: the youngest payment_ts of its
        \* acceptances.
        YoungestPaymentTs(acceptances) == MaxOf({a.payment_ts : a \in Range(acceptances)})
    IN
    (/\ last.op = "settle_overdue_acceptances"
     /\ last.requestor_deposit > last.sum_requestor
     /\ \E payable \in last.requestor_payable_amount : payable > 0)
    => \E payable \in last.requestor_payable_amount :
         LET T2 == YoungestPaymentTs(last.acceptances)
         IN /\ last.exc = "none"
            /\ Len(last.calls) = 1
            /\ last.calls[1].function = "make_force_payment_to_provider"
            /\ last.calls[1].requestor_eth_address = RequestorAddress
            /\ last.calls[1].provider_eth_address = ProviderAddress
            /\ last.calls[1].value = payable
            /\ last.calls[1].payment_ts = T2
            /\ \E c \in last.ret :
                 /\ last.ret = {c}
                 /\ c \notin last.claims_before
                 /\ claims = last.claims_before \cup {c}
                 /\ c.concent_use_case = FORCED_PAYMENT
                 /\ c.subtask_id = NoSubtask
                 /\ c.amount = payable
                 /\ c.tx_hash # NoHash
                 /\ c.closure_time = {T2}

\* C14: a settle_overdue_acceptances call that finds the requestor's deposit
\* at most the sum of the claims, or computes a payable amount of zero or
\* less, returns null, inserts no claim and makes no force payment call.
C14_SettleNothingPayable ==
    (/\ last.op = "settle_overdue_acceptances"
     /\ \/ last.requestor_deposit <= last.sum_requestor
        \/ \E payable \in last.requestor_payable_amount : payable <= 0)
    => /\ last.ret = {}
       /\ last.exc = "none"
       /\ last.calls = << >>
       /\ claims = last.claims_before

\* A settle call that had funds above the claims and computed a payable
\* amount of zero: the provider was already paid in full.
C14_Witness ==
    /\ last.op = "settle_overdue_acceptances"
    /\ last.requestor_deposit > last.sum_requestor
    /\ last.requestor_payable_amount = {0}
    /\ last.ret = {}

\* The calls that are at the point of their payment call to the oracle.
AtPaymentCall == {wk \in Workers : w[wk].pc \in {"fp_pay", "so_pay"}}

\* The row locks a worker's transaction holds.
LocksHeldBy(wk) == {address \in DOMAIN lock : wk \in lock[address]}

\* C15 as stated: no Bankster operation holds a DepositAccount row lock at the
\* moment it calls the oracle.
C15_Original == \A wk \in AtPaymentCall : LocksHeldBy(wk) = {}

\* C15: the deposit reads that open an operation, and the whole of
\* claim_deposit up to its insert, run with no row lock held by the caller;
\* the payment calls of finalize_payment and settle_overdue_acceptances are
\* made inside the transaction that holds the payer's row lock, and that
\* lock is the only one the caller holds.
C15_LockBracketsPayment ==
    LET
        \* The DepositAccount a call at its payment call pays from.
        PayerOf(wk) ==
            IF w[wk].pc = "fp_pay"
            THEN (CHOOSE c \in w[wk].deposit_claim : TRUE).payer_deposit_account
            ELSE RequestorAddress
    IN
    \A wk \in Workers :
       IF wk \in AtPaymentCall
       THEN LocksHeldBy(wk) = {PayerOf(wk)}
       ELSE LocksHeldBy(wk) = {}

\* One call is at its payment call with the payer's row locked while another
\* waits for that row.
C15_Witness ==
    /\ w["w1"].pc = "fp_pay"
    /\ lock[RequestorAddress] = {"w1"}
    /\ w["w2"].pc = "fp_lock"

\* ------------------------------------------------------------ relay claims
\* The entries of a tracker in front of and behind the entry of a key.
EntriesBefore(tracker, key) == SubSeq(tracker, 1, TrackerIndex(tracker, key) - 1)
EntriesAfter(tracker, key) == SubSeq(tracker, TrackerIndex(tracker, key) + 1, Len(tracker))

\* C16 as stated: after the response_producer has processed an upstream
\* response whose request id T matches a tracker entry, the tracker holds no
\* entry that was inserted before T's and none for T, and the entries
\* inserted after T's are untouched.
C16_Original ==
    (/\ last.op = "response_producer"
     /\ last.outcome \in {"no queue", "delivered"})
    => LET T == last.frame.request_id
       IN /\ \A entry \in Range(EntriesBefore(last.tracker_before, T)) :
                entry \notin Range(message_tracker)
          /\ T \notin TrackerKeys(message_tracker)
          /\ message_tracker = EntriesAfter(last.tracker_before, T)

\* C16: a step of the response_producer on an upstream response whose
\* request id T matches a tracker entry leaves the entries behind T's
\* untouched; when the destination connection is in the pool the entries in
\* front of T's are dropped, and T's entry goes with the put of the response
\* item, so that after the put the tracker holds exactly the entries that
\* were behind T's; when the destination connection has left the pool only
\* T's entry is removed and the entries in front of it stay.
C16_LostMessageDiscard ==
    (/\ last.op = "response_producer"
     /\ last.outcome \in {"no queue", "blocked", "delivered"})
    => LET T == last.frame.request_id
           earlier == EntriesBefore(last.tracker_before, T)
           later == EntriesAfter(last.tracker_before, T)
           entry == last.tracker_before[TrackerIndex(last.tracker_before, T)]
       IN /\ T \in TrackerKeys(last.tracker_before)
          /\ last.outcome = "delivered" => message_tracker = later
          /\ last.outcome = "blocked" => message_tracker = <<entry>> \o later
          /\ last.outcome = "no queue" => message_tracker = earlier \o later

\* An answer was delivered whose entry had an older one in front of it.
C16_Witness ==
    /\ last.op = "response_producer"
    /\ last.outcome = "delivered"
    /\ EntriesBefore(last.tracker_before, last.frame.request_id) # << >>
    /\ message_tracker = << >>

\* C17: every frame written to a front-end connection that carries an
\* answer of the Signing Service carries the answer to a request that this
\* connection submitted, under the request id that request came with.
C17_ResponsesGoToOriginator ==
    (/\ last.op = "response_consumer"
     /\ IsAnswer(last.frame.payload))
    => /\ last.frame.payload.answer_to.connection_id = last.connection_id
       /\ last.frame.payload.answer_to.request_id = last.frame.request_id

\* C18: the requests of one connection are sent upstream in the order its
\* request_producer read them: each request sent was read after every
\* request of the connection sent before it.
C18_RequestOrder ==
    (/\ last.op = "request_consumer"
     /\ last.forwarded)
    => last.item.message.no > last.last_sent_before[last.item.connection_id]

\* A request is sent upstream for a connection that had one sent before,
\* with a request of the other connection sent in between or before.
C18_Witness ==
    /\ last.op = "request_consumer"
    /\ last.forwarded
    /\ last.last_sent_before[last.item.connection_id] > 0
    /\ \E c \in Connections \ {last.item.connection_id} :
          /\ last.last_sent_before[c] > 0
          /\ last.last_sent_before[c] < last.item.message.no

\* C19: the answers written to one connection are written in the order in
\* which the Signing Service gave them: each answer written was given after
\* every answer written to the connection before it.
C19_ResponseOrder ==
    (/\ last.op = "response_consumer"
     /\ IsAnswer(last.frame.payload))
    => last.frame.payload.answer_no > last.last_written_before[last.connection_id]

\* The answer to the first request read is written to its connection after
\* an answer to a later request was: the Signing Service answered out of
\* the order of submission.
C19_Witness ==
    /\ last.op = "response_consumer"
    /\ IsAnswer(last.frame.payload)
    /\ last.last_written_before[last.connection_id] > 0
    /\ last.frame.payload.answer_to.no = 1

\* C20: a request_producer that reads a frame raising one of the four errors
\* puts one error item with request id
\* REQUEST_ID_FOR_RESPONSE_FOR_INVALID_FRAME at the end of its own
\* connection's response queue, leaves the shared request queue and the
\* other connections' queues as they were, and keeps running.
C20_InvalidFrame ==
    (/\ last.op = "request_producer"
     /\ last.exception \in ERRORS_THAT_CAUSE_CURRENT_ITERATION_ENDS)
    => /\ response_queue[last.connection_id] =
             Append(last.response_queue_before[last.connection_id],
                    [message |-> [error_code |-> map_exception_to_error_code(last.exception),
                                  error |-> last.exception,
                                  request_id |-> REQUEST_ID_FOR_RESPONSE_FOR_INVALID_FRAME],
                     concent_request_id |-> REQUEST_ID_FOR_RESPONSE_FOR_INVALID_FRAME])
       /\ \A c \in Connections \ {last.connection_id} :
             response_queue[c] = last.response_queue_before[c]
       /\ request_queue = last.request_queue_before
       /\ producer[last.connection_id] = "running"

\* An invalid frame is read on a connection while requests wait in the
\* shared queue and the connection's response queue holds an answer.
C20_Witness ==
    /\ last.op = "request_producer"
    /\ last.exception \in ERRORS_THAT_CAUSE_CURRENT_ITERATION_ENDS
    /\ request_queue # << >>
    /\ Len(response_queue[last.connection_id]) = 2

\* C21: for every invalid frame that a front end sends, signature failures
\* included, the frame that is written to that connection in answer is a
\* frame of payload type ERROR that carries the error code of the failure,
\* and the connection's request_producer keeps running.
C21_ErrorFrameWritten ==
    (/\ last.op = "response_consumer"
     /\ IsErrorFrame(last.frame.payload))
    => /\ last.frame.payload_type = "ERROR"
       /\ last.frame.payload.error_code = map_exception_to_error_code(last.frame.payload.error)
       /\ last.frame.request_id = REQUEST_ID_FOR_RESPONSE_FOR_INVALID_FRAME

\* C22: when the connection of the Signing Service closes, the originating
\* connection of every entry that the tracker holds at that moment is sent
\* an ERROR frame: an error item is put on its response queue.
C22_UpstreamCloseAnswersTracker ==
    LET
        \* The items that a connection's response queue holds beyond those it held
        \* before.
        ItemsPutSince(before, connection_id) ==
            SubSeq(response_queue[connection_id], Len(before[connection_id]) + 1,
                   Len(response_queue[connection_id]))
    IN
    last.op = "signing_service_close"
    => \A i \in DOMAIN last.tracker :
          \E item \in Range(ItemsPutSince(last.response_queue_before,
                                          last.tracker[i].connection_id)) :
             IsErrorFrame(item.message)

\* C23: after the connection of the Signing Service has closed, the
\* request_consumer writes no tracker entry and sends nothing upstream, and
\* a request it takes from the queue after the close, whose connection is in
\* the pool, ends with an error item at the end of that connection's
\* response queue.
C23_NoForwardingAfterClose ==
    (/\ last.op = "request_consumer"
     /\ last.upstream_closed)
    => /\ ~last.forwarded
       /\ last.item.connection_id \in response_queue_pool
             => /\ response_queue[last.item.connection_id] # << >>
                /\ LET queue == response_queue[last.item.connection_id]
                   IN IsErrorFrame(queue[Len(queue)].message)

\* ------------------------------------------------------------ codec claims
\* C24: a frame that is sent (serialized, signed, escape-encoded, separator
\* appended) and received with the public key that matches the sender's
\* private key comes out equal to the frame that was sent, whatever escape
\* or separator bytes its request id, payload and signature hold.
C24_RoundTrip ==
    (/\ codec.pc = "received"
     /\ codec.intact
     /\ PrivateKeyOf(codec.public_key) = codec.private_key)
    => /\ ~IsException(codec.result)
       /\ codec.result.frame = codec.frame

\* A frame whose payload holds an escape character and a frame separator
\* and whose request id is the separator byte has made the round trip.
C24_Witness ==
    /\ codec.pc = "received"
    /\ codec.intact
    /\ PrivateKeyOf(codec.public_key) = codec.private_key
    /\ ~IsException(codec.result)
    /\ codec.result.frame = codec.frame
    /\ codec.frame.request_id = FRAME_SEPARATOR
    /\ {ESCAPE_CHARACTER, FRAME_SEPARATOR} \subseteq Range(codec.frame.payload)

\* C25: map_exception_to_error_code gives every exception an error code:
\* InvalidPayload for an invalid payload type and an invalid payload,
\* InvalidFrame for an invalid request id type and an invalid frame,
\* InvalidFrameSignature for an invalid signature, Unknown for every other
\* exception.
C25_ErrorCodeOfException ==
    codec.pc = "mapped"
    => LET exception == codec.exception
       IN /\ codec.error_code \in {"InvalidPayload", "InvalidFrame",
                                    "InvalidFrameSignature", "Unknown"}
          /\ codec.error_code = "InvalidPayload"
                <=> exception \in {"PayloadTypeInvalidMiddlemanProtocolError",
                                   "PayloadInvalidMiddlemanProtocolError"}
          /\ codec.error_code = "InvalidFrame"
                <=> exception \in {"RequestIdInvalidTypeMiddlemanProtocolError",
                                   "FrameInvalidMiddlemanProtocolError"}
          /\ codec.error_code = "InvalidFrameSignature"
                <=> exception = "SignatureInvalidMiddlemanProtocolError"

\* A frame received with the key of another sender was refused and the
\* failure mapped to its code.
C25_Witness ==
    /\ codec.pc = "mapped"
    /\ codec.exception = "SignatureInvalidMiddlemanProtocolError"
    /\ codec.error_code = "InvalidFrameSignature"

\* ---------------------------------------------------------- Subtask claims
\* C26: store_subtask stores the Subtask only if the task_to_compute nested
\* in each of its other messages (report_computed_task,
\* ack_report_computed_task, reject_report_computed_task,
\* force_get_task_result, subtask_results_rejected) equals the subtask's
\* task_to_compute; when one of them differs, or a message that must carry
\* one carries none, the call fails with a ValidationError and no Subtask
\* is stored.
C26_NestedTaskToCompute ==
    LET a == subtask_store.arguments
        canonical == a.task_to_compute
        agree ==
           /\ a.report_computed_task.task_to_compute = canonical
           /\ a.ack_report_computed_task # NoMessage
                 => a.ack_report_computed_task.report_computed_task.task_to_compute = canonical
           /\ a.reject_report_computed_task # NoMessage
                 => \/ a.reject_report_computed_task.attached_task_to_compute = {canonical}
                    \/ a.reject_report_computed_task.task_failure
                          = {[task_to_compute |-> canonical]}
                    \/ a.reject_report_computed_task.cannot_compute_task
                          = {[task_to_compute |-> canonical]}
           /\ a.force_get_task_result # NoMessage
                 => a.force_get_task_result.report_computed_task.task_to_compute = canonical
           /\ a.subtask_results_rejected # NoMessage
                 => a.subtask_results_rejected.report_computed_task.task_to_compute = canonical
    IN /\ subtask_store.pc = "stored" => agree /\ subtask_store.subtasks = {a}
       /\ subtask_store.pc = "failed"
             => /\ ~agree
                /\ subtask_store.exception = "ValidationError"
                /\ subtask_store.subtasks = {}

\* A Subtask whose reject_report_computed_task carries no task_to_compute
\* was refused, all its other messages agreeing.
C26_Witness ==
    /\ subtask_store.pc = "failed"
    /\ subtask_store.arguments.reject_report_computed_task = RejectReportComputedTaskEmpty
    /\ SubtaskIsValid([subtask_store.arguments EXCEPT !.reject_report_computed_task = NoMessage])
    /\ subtask_store.arguments.ack_report_computed_task # NoMessage

\* ------------------------------------------------- forced acceptance claims
\* C27: when the provider's ForceSubtaskResults for a subtask that Concent
\* does not know yet is handled, claim_deposit is called once, with use
\* case FORCED_ACCEPTANCE, the requestor's and the provider's addresses and
\* keys of the task and subtask_cost = the task's price; the subtask enters
\* FORCING_ACCEPTANCE only if the call returns a claim, and when it returns
\* (None, None) the request is refused for a too small deposit and the
\* subtask stays unknown.
C27_ForceAcceptanceClaimsDeposit ==
    LET handled == arbitration.handled
    IN (/\ handled.request = "ForceSubtaskResults"
        /\ handled.client = ProviderKey
        /\ handled.subtask_state_before = NoSubtaskState)
       => /\ handled.calls = <<[function |-> "claim_deposit",
                                subtask_id |-> "subtask_1",
                                concent_use_case |-> FORCED_ACCEPTANCE,
                                requestor_ethereum_address |-> RequestorAddress,
                                provider_ethereum_address |-> ProviderAddress,
                                subtask_cost |-> arbitration.price,
                                requestor_public_key |-> RequestorKey,
                                provider_public_key |-> ProviderKey]>>
          /\ handled.claim
                => /\ arbitration.subtask_state = FORCING_ACCEPTANCE
                   /\ handled.response = "HTTP 202"
          /\ ~handled.claim
                => /\ arbitration.subtask_state = NoSubtaskState
                   /\ arbitration.stored_messages = {}
                   /\ handled.response = "ServiceRefused TooSmallRequestorDeposit"

\* The provider's request was taken after the clock had moved, claim_deposit
\* returning a claim for the highest price.
C27_Witness ==
    /\ arbitration.handled.request = "ForceSubtaskResults"
    /\ arbitration.handled.subtask_state_before = NoSubtaskState
    /\ arbitration.handled.claim
    /\ arbitration.subtask_state = FORCING_ACCEPTANCE
    /\ arbitration.price = MaxCost
    /\ arbitration.now > 0

\* C28: a ForceSubtaskResults for a subtask that Concent already knows is
\* answered with ServiceRefused (DuplicateRequest) when the provider of the
\* task signed it and with HTTP 400 when it comes with other keys; the
\* subtask's state and its stored messages are as before and no Bankster
\* operation is called.
C28_DuplicateForceRefused ==
    LET handled == arbitration.handled
    IN (/\ handled.request = "ForceSubtaskResults"
        /\ handled.subtask_state_before # NoSubtaskState)
       => /\ handled.client = ProviderKey
                => handled.response = "ServiceRefused DuplicateRequest"
          /\ handled.client # ProviderKey => handled.response = "HTTP 400"
          /\ arbitration.subtask_state = handled.subtask_state_before
          /\ arbitration.stored_messages = handled.stored_messages_before
          /\ handled.calls = << >>

\* The provider sent its ForceSubtaskResults again while the subtask was in
\* FORCING_ACCEPTANCE.
C28_Witness ==
    /\ arbitration.handled.request = "ForceSubtaskResults"
    /\ arbitration.handled.client = ProviderKey
    /\ arbitration.handled.subtask_state_before = FORCING_ACCEPTANCE
    /\ arbitration.handled.response = "ServiceRefused DuplicateRequest"

\* C29: a subtask leaves FORCING_ACCEPTANCE only for ACCEPTED, by a
\* SubtaskResultsAccepted of the requestor or by its deadline passing
\* without an answer, or for REJECTED, by a SubtaskResultsRejected of the
\* requestor; a subtask that is ACCEPTED or REJECTED keeps its state.
C29_ForcingAcceptanceLeaves ==
    [][/\ (/\ arbitration.subtask_state = FORCING_ACCEPTANCE
           /\ arbitration'.subtask_state # FORCING_ACCEPTANCE)
          => \/ /\ arbitration'.subtask_state = ACCEPTED
                /\ arbitration'.handled.request = "ForceSubtaskResultsResponse"
                /\ arbitration'.handled.client = RequestorKey
                /\ arbitration'.stored_messages
                      = arbitration.stored_messages \cup {"SubtaskResultsAccepted"}
             \/ /\ arbitration'.subtask_state = ACCEPTED
                /\ arbitration'.handled.request = "update_timed_out_subtasks"
                /\ arbitration.now > arbitration.next_deadline
                /\ arbitration'.stored_messages = arbitration.stored_messages
             \/ /\ arbitration'.subtask_state = REJECTED
                /\ arbitration'.handled.request = "ForceSubtaskResultsResponse"
                /\ arbitration'.handled.client = RequestorKey
                /\ arbitration'.stored_messages
                      = arbitration.stored_messages \cup {"SubtaskResultsRejected"}
       /\ arbitration.subtask_state \in {ACCEPTED, REJECTED}
          => arbitration'.subtask_state = arbitration.subtask_state]_vars

\* The subtask was accepted because its deadline passed, and an answer of
\* the requestor that came afterwards was refused.
C29_Witness ==
    /\ arbitration.subtask_state = ACCEPTED
    /\ arbitration.handled.request = "ForceSubtaskResultsResponse"
    /\ arbitration.handled.client = RequestorKey
    /\ arbitration.handled.subtask_state_before = ACCEPTED
    /\ "SubtaskResultsAccepted" \notin arbitration.stored_messages

\* ------------------------------------------------------- claim well-formed
\* C30: every DepositClaim that is stored has a strictly positive amount, a
\* payee address other than the address of its payer account, a subtask_id
\* unless its use case is FORCED_PAYMENT, and a closure_time only if its use
\* case is FORCED_PAYMENT; so after claim_deposit, after a finalize_payment
\* that lowers the amount and after settle_overdue_acceptances.
C30_ClaimsWellFormed ==
    LET
        \* The DepositClaim rows that are stored: the committed ones and those a
        \* claim_deposit transaction has saved and not yet committed.
        StoredClaims ==
            claims \cup UNION {w[wk].claim_against_requestor \cup w[wk].claim_against_provider :
                                  wk \in Workers}
    IN
    \A c \in StoredClaims :
       /\ c.amount \in Nat \ {0}
       /\ c.payee_ethereum_address # c.payer_deposit_account
       /\ c.subtask_id = NoSubtask => c.concent_use_case = FORCED_PAYMENT
       /\ c.closure_time # {} => c.concent_use_case = FORCED_PAYMENT

\* A finalize_payment has just lowered the amount of a claim while a
\* FORCED_PAYMENT claim of settle_overdue_acceptances is stored.
C30_Witness ==
    /\ last.op = "finalize_payment"
    /\ last.exc = "none"
    /\ last.available_funds_without_claims > 0
    /\ last.available_funds_without_claims < last.deposit_claim.amount
    /\ \E c \in claims : c.id = last.deposit_claim.id /\ c.amount < last.deposit_claim.amount
    /\ \E c \in claims : c.concent_use_case = FORCED_PAYMENT /\ c.closure_time # {}

\* --------------------------------------------------- relay claims, continued
\* C31: a step of the request_consumer on an item whose connection_id is not
\* in the response queue pool drops the item: the tracker keeps its entries,
\* the Signing Service request id stays as it was and nothing is sent
\* upstream.
C31_DropsItemOfClosedConnection ==
    [][(/\ last'.op = "request_consumer"
        /\ Head(request_queue).connection_id \notin response_queue_pool)
       => /\ request_queue' = Tail(request_queue)
          /\ ~last'.forwarded
          /\ UNCHANGED <<message_tracker, signing_service_request_id,
                         signing_service_pending>>]_vars

\* An item was dropped while the tracker holds the entry of a request that
\* was sent upstream before.
C31_Witness ==
    /\ last.op = "request_consumer"
    /\ ~last.forwarded
    /\ last.item.connection_id \notin response_queue_pool
    /\ message_tracker # << >>
    /\ signing_service_pending # {}

\* C32: the request id of a frame sent upstream is the id of the frame sent
\* before it plus one modulo CONNECTION_COUNTER_LIMIT (1 for the first), and
\* when the frame is sent the tracker holds an entry under that id with the
\* connection id and the request id that the request came with.
C32_SuccessiveTrackedIds ==
    [][(/\ last'.op = "request_consumer"
        /\ last'.forwarded)
       => LET item == Head(request_queue)
              id == (signing_service_request_id + 1) % CONNECTION_COUNTER_LIMIT
          IN /\ signing_service_request_id' = id
             /\ signing_service_pending' \ signing_service_pending =
                   {[request_id |-> id, payload |-> item.message]}
             /\ \E i \in DOMAIN message_tracker' :
                   /\ message_tracker'[i].key = id
                   /\ message_tracker'[i].connection_id = item.connection_id
                   /\ message_tracker'[i].concent_request_id = item.concent_request_id]_vars

\* A request was sent upstream under an id that follows a wrap of the
\* counter, while the request sent before it is still tracked.
C32_Witness ==
    /\ last.op = "request_consumer"
    /\ last.forwarded
    /\ signing_service_request_id = 0
    /\ Len(message_tracker) >= 2
    /\ \E f \in signing_service_pending : f.request_id = 0 /\ f.payload = last.item.message

\* C33: a step of the response_producer on an upstream frame whose request
\* id is not in the tracker changes neither the tracker nor a response
\* queue; on a frame whose id is in the tracker while the connection of the
\* entry is not in the pool, it removes that entry and no other and puts
\* nothing on a response queue.
C33_UnmatchedFrameDiscarded ==
    [][(/\ last'.op = "response_producer"
        /\ last'.outcome # "invalid"
        /\ response_producer.pc = "receive")
       => LET frame == Head(signing_service_reader)
              Other(entry) == entry.key # frame.request_id
          IN /\ frame.request_id \notin TrackerKeys(message_tracker)
                => UNCHANGED <<message_tracker, response_queue>>
             /\ (/\ frame.request_id \in TrackerKeys(message_tracker)
                 /\ message_tracker[TrackerIndex(message_tracker, frame.request_id)].connection_id
                       \notin response_queue_pool)
                => /\ message_tracker' = SelectSeq(message_tracker, Other)
                   /\ Len(message_tracker') = Len(message_tracker) - 1
                   /\ UNCHANGED response_queue]_vars

\* The answer to a request of a connection that has closed was read while
\* the tracker held the entry of another request in front of it.
C33_Witness ==
    /\ last.op = "response_producer"
    /\ last.outcome = "no queue"
    /\ Len(last.tracker_before) = 2
    /\ last.tracker_before[2].key = last.frame.request_id
    /\ Len(message_tracker) = 1

C40_Original ==
    (/\ last.op = "finalize_payment"
     /\ last.calls # << >>)
    => LET payer == last.deposit_claim.payer_deposit_account
           others == {c \in claims : /\ c.payer_deposit_account = payer
                                      /\ c.id # last.deposit_claim.id}
       IN last.calls[1].value <= deposit[payer] - SumAmounts(others)

\* C40: the amount a finalize_payment passes to the oracle payment call is
\* at most the balance it read from the oracle when it started minus the sum
\* of the payer's other claims that are stored when it takes the row lock,
\* whatever ran between the read and the lock.
C40_WithinBalanceRead ==
    [][\A wk \in Workers :
          /\ (w[wk].pc = "fp_lock" /\ w'[wk].pc = "fp_pay")
             => LET deposit_claim == CHOOSE c \in w[wk].deposit_claim : TRUE
                    others == {c \in claims :
                                 /\ c.payer_deposit_account = deposit_claim.payer_deposit_account
                                 /\ c.id # deposit_claim.id}
                IN /\ w'[wk].amount <= w[wk].available_funds - SumAmounts(others)
                   /\ w'[wk].amount > 0
          /\ (/\ w[wk].pc = "fp_pay"
              /\ w'[wk].pc = "idle"
              /\ last'.op = "finalize_payment"
              /\ last'.calls # << >>)
             => last'.calls[1].value = w[wk].amount]_vars

\* A finalize_payment has paid more than the payer's deposit holds at the
\* moment of the call: the deposit went down after the balance was read.
C40_Witness ==
    /\ last.op = "finalize_payment"
    /\ last.calls # << >>
    /\ deposit_changes > 0
    /\ last.calls[1].value > deposit[last.deposit_claim.payer_deposit_account]

\* C35: a finalize_payment that finds funds available and selects no oracle
\* payment call (the use case is neither FORCED_ACCEPTANCE nor
\* ADDITIONAL_VERIFICATION, or it is ADDITIONAL_VERIFICATION and no Subtask
\* has the claim's subtask_id or the payer is neither the requestor nor the
\* provider of that Subtask) ends with an exception, makes no oracle payment
\* call, registers no callback and leaves the stored claims as they were; a
\* discard_claim on a claim whose payer DepositAccount is gone ends with an
\* exception and removes nothing.
C35_AbortsWithoutPayment ==
    /\ (/\ last.op = "finalize_payment"
        /\ last.available_funds_without_claims > 0
        /\ LET c == last.deposit_claim
               of_subtask == {s \in subtasks : s.subtask_id = c.subtask_id}
           IN \/ c.concent_use_case \notin {FORCED_ACCEPTANCE, ADDITIONAL_VERIFICATION}
              \/ /\ c.concent_use_case = ADDITIONAL_VERIFICATION
                 /\ \/ of_subtask = {}
                    \/ \A s \in of_subtask : /\ s.requestor # c.payer_deposit_account
                                              /\ s.provider # c.payer_deposit_account)
       => /\ last.exc # "none"
          /\ last.calls = << >>
          /\ last.ret = NoHash
          /\ claims = last.claims_before
          /\ callbacks = last.callbacks_before
          /\ \A c \in claims : c.id = last.deposit_claim.id
                => c.tx_hash = NoHash /\ c.amount = last.deposit_claim.amount
    /\ (/\ last.op = "discard_claim"
        /\ \A a \in accounts : a.ethereum_address # last.deposit_claim.payer_deposit_account)
       => /\ last.exc # "none"
          /\ ~last.ret
          /\ claims = last.claims_before

\* A finalize_payment on a claim of ADDITIONAL_VERIFICATION, whose amount is
\* above the funds available, has ended with an exception because the payer
\* is no party of the Subtask.
C35_Witness ==
    /\ last.op = "finalize_payment"
    /\ last.exc = "AssertionError"
    /\ last.deposit_claim.concent_use_case = ADDITIONAL_VERIFICATION
    /\ subtasks # {}
    /\ last.available_funds_without_claims > 0
    /\ last.available_funds_without_claims < last.deposit_claim.amount
    /\ last.deposit_claim \in claims

\* C38: the request consumer never writes a tracker entry under an id that
\* is still in the tracker, so that no entry of a request in flight is
\* overwritten and the entries stay in the order in which their ids were
\* sent upstream: a forwarding step finds its new id absent and puts its
\* entry behind all the others.
C38_NoTrackedIdOverwritten ==
    [][(last'.op = "request_consumer" /\ last'.forwarded)
          => /\ signing_service_request_id' \notin TrackerKeys(message_tracker)
             /\ Len(message_tracker') = Len(message_tracker) + 1
             /\ message_tracker'[Len(message_tracker')].key = signing_service_request_id']_vars

\* C39: the second of two frames the Signing Service sends with one answer
\* puts nothing on any response queue and changes nothing in the tracker
\* (it finds no entry), unless its request id has been given to a later
\* request in between, whose entry it then finds.
C39_RepeatedFrameDiscarded ==
    [][(/\ last'.op = "response_producer"
        /\ Len(signing_service_reader') < Len(signing_service_reader)
        /\ "repeats" \in DOMAIN last'.frame)
          => \/ /\ last'.outcome = "no entry"
                /\ response_queue' = response_queue
                /\ message_tracker' = message_tracker
                /\ response_producer' = response_producer
             \/ /\ last'.frame.request_id \in TrackerKeys(message_tracker)
                /\ message_tracker[TrackerIndex(message_tracker, last'.frame.request_id)].message
                      # last'.frame.payload.answer_to]_vars

\* The second frame of an answer has been discarded while the response queue
\* of the connection that asked holds the first, and the connection is open.
C39_Witness ==
    /\ last.op = "response_producer"
    /\ last.outcome = "no entry"
    /\ "repeats" \in DOMAIN last.frame
    /\ LET request == last.frame.payload.answer_to
       IN /\ request.connection_id \in response_queue_pool
          /\ \E i \in DOMAIN response_queue[request.connection_id] :
                response_queue[request.connection_id][i].message = last.frame.payload

\* ----------------------------------------------------------- stream claims
\* C37: every frame reaches its stream in one call of write, whose data is
\* the escape-encoded signed frame followed by one frame separator, the only
\* separator in the data; the bytes of a stream, cut after each separator,
\* are the frames written to it, whole and in the order of the writes, for
\* every interleaving of the consumers.
C37_FramesWrittenWhole ==
    LET
        RECURSIVE Flat(_)
        \* The bytes of a stream: the data of its write calls, one after the other.
        Flat(calls) == IF calls = << >> THEN << >> ELSE Head(calls) \o Flat(Tail(calls))
        RECURSIVE Cut(_)
        \* The pieces a reader gets that reads up to a separator, time after time.
        Cut(bytes) ==
            IF bytes = << >> THEN << >>
            ELSE IF \A j \in DOMAIN bytes : bytes[j] # FRAME_SEPARATOR THEN <<bytes>>
            ELSE LET n == CHOOSE j \in DOMAIN bytes :
                             /\ bytes[j] = FRAME_SEPARATOR
                             /\ \A k \in 1 .. j - 1 : bytes[k] # FRAME_SEPARATOR
                 IN <<SubSeq(bytes, 1, n)>> \o Cut(SubSeq(bytes, n + 1, Len(bytes)))
    IN
    codec.pc = "streams" =>
        \A writer \in DOMAIN codec.written :
            LET calls == codec.written[writer]
                pieces == Cut(Flat(calls))
            IN /\ Len(calls) = Len(codec.frames[writer])
               /\ \A i \in DOMAIN calls :
                     /\ calls[i] # << >>
                     /\ calls[i][Len(calls[i])] = FRAME_SEPARATOR
                     /\ \A j \in 1 .. Len(calls[i]) - 1 : calls[i][j] # FRAME_SEPARATOR
               /\ Len(pieces) = Len(codec.frames[writer])
               /\ \A i \in DOMAIN pieces :
                     LET result == handle_frame_receive_async(pieces[i], "CONCENT_PUBLIC_KEY")
                     IN /\ ~IsException(result)
                        /\ result.frame = codec.frames[writer][i]

\* Two frames are on the stream of a connection, the first with a separator
\* byte in its payload, and one is on the stream to the Signing Service,
\* whose writer has not come back from drain().
C37_Witness ==
    /\ codec.pc = "streams"
    /\ Len(codec.frames["c1"]) = 2
    /\ FRAME_SEPARATOR \in Range(codec.frames["c1"][1].payload)
    /\ Len(codec.frames["signing_service_writer"]) = 1
    /\ "request_consumer" \in codec.draining

====
